---- MODULE Spec2Model ----
(***************************************************************************)
(* Synchronisation cycles of the OpenArchiver ingestion connectors.        *)
(*                                                                         *)
(* GmailConnector and JMAPConnector are async generators: fetchEmails      *)
(* runs up to the next yield each time the consumer pulls, and             *)
(* getUpdatedSyncState reads the connector's cursor field.  Every provider *)
(* call of the generators is one action here, so that changes of the       *)
(* mailbox at the provider interleave with a running cycle exactly where   *)
(* the code awaits.                                                        *)
(*                                                                         *)
(* The provider is a mailbox (the set of live message ids, listed newest   *)
(* first) with a change log.  The change-tracking token of the mailbox     *)
(* (Gmail historyId, JMAP Email state) is the length of the log plus one;  *)
(* tokens below logFloor are no longer served by the provider.             *)
(***************************************************************************)
EXTENDS Naturals, Sequences, FiniteSets, TLC

\* ------------------------------------------------------------------ bounds

\* message ids are 1..MaxMsgs, numbered in order of arrival
MaxMsgs == 2
\* messages the provider removes during a run
MaxRemovals == 1
MaxUpdated == 1
\* cycles the orchestrator runs in a row
MaxCycles == 2
\* provider calls that fail or answer with a defective message during a run
MaxFaults == 1
\* page size of the Gmail list calls (chosen by the provider)
PageSize == 1
\* JMAPConnector.ts:361 and :482 set BATCH_SIZE = 50; scaled to the mailbox sizes
\* explored here
BATCH_SIZE == 1

\* items of one batch in the model of the provider calls of a cycle
MaxItems == 2
\* labels of one message that are not in labelCache
MaxLabels == 1
\* pollDeviceAuth requests of one device flow, which may overlap
MaxPolls == 2

\* the callback requests of the authorization code flow that may overlap
MaxCallbacks == 1

\* the requests served when both authorization flows run side by side
MaxRequests == 1

\* the calls of pollGmailAuth of the ingestion page that send a request
MaxTicks == 2

\* the names getMailboxPath collects before its walk is cut off
MaxParts == 4

\* ------------------------------------------------------------- constants

\* withRetry(action, maxRetries = 5)
maxRetries == 5

\* undefined / null / '' : every falsy cursor value of the source
NoToken == 0

UserEmail == "a@example.com"
OtherEmail == "b@example.com"
\* the account id the JMAP session resolves to (getAccountId)
SessionAccountId == "acct-a"
OtherAccountId == "acct-b"

Connectors == {"gmail", "jmap"}

\* ------------------------------------------------------------- variables

VARIABLES
    connector,      \* which connector class the ingestion source uses
    live,           \* provider: ids of the messages in the mailbox
    changeLog,      \* provider: sequence of [op, id], op in {"add", "del"}
    logFloor,       \* provider: oldest token the provider still accepts
    priorState,     \* the SyncState passed to fetchEmails
    cycle,          \* number of the running cycle
    pc,             \* position of the generator
    mode,           \* "none" | "full" | "incremental" | "fallback"
    newHistoryId,   \* GmailConnector.newHistoryId
    newEmailState,  \* JMAPConnector.newEmailState
    accountId,      \* JMAPConnector.accountId ("" is null)
    loc,            \* the local variables of the running generator
    yielded,        \* ids yielded to the consumer in this cycle, in order
    skipped,        \* <<id, reason>> of the messages left out in this cycle
    suspended,      \* the generator is suspended at a yield
    sentToken,      \* token sent with the first delta request of the cycle
    rejected,       \* the provider rejected that token
    raisedBy,       \* the call whose error left fetchEmails ("" when none did)
    faults,         \* provider calls that failed so far
    churn,          \* ids that arrived or were removed while the cycle scanned
    listed,         \* ids the provider listed to the cycle, in order
    prev            \* summary of the previous cycle

cycleVars == <<connector, live, changeLog, logFloor, priorState, cycle, pc, mode,
               newHistoryId, newEmailState, accountId, loc, yielded, skipped,
               suspended, sentToken, rejected, raisedBy, faults, churn, listed,
               prev>>

\* the provider calls of a cycle, attempt by attempt
VARIABLES
    rConn,          \* the connector whose cycle makes the calls
    rBatchSite,     \* the call that fetches the batch of the cycle
    rN,             \* number of items in the batch
    rIdx,           \* 0: a call of the cycle outside its loop; i: a call for item i
    rSite,          \* the call site of the running call
    rFormat,        \* messages.get: the format asked for ("" for the other calls)
    rLabels,        \* getLabelDetails: the labels.get calls made for the item
    rHandled,       \* the items the loop over the batch is through with
    rPhase,         \* "idle" | "attempt" | "backoff" | "returned" | "thrown" |
                    \* "next" (the call returned, the next call for the item
                    \* follows) | "handled"
    attempt,        \* withRetry: the loop variable
    calls,          \* invocations of the action by the running call
    waits,          \* the backoff waits of the running call, in ms
    rErr,           \* the error the running call threw
    rTrace,         \* the outcomes of the attempts of the running call
    rYielded,       \* the items yielded
    rSkipped,       \* the items whose call threw an error the catch swallowed
    rRest,          \* what followed the call that returned: for an item
                    \* "object" | "null" | "throws", for the batch the type
                    \* of the method-level error of the answer; "" for none
    rCycle,         \* "running" | "done" | "raised"
    rAbsorbed,      \* the calls of the cycle (0 or the item) that returned at
                    \* the last attempt after transient failures
    rUnparsed       \* the items whose call returned and whose EmailObject was
                    \* not built

retryVars == <<rConn, rBatchSite, rN, rIdx, rSite, rFormat, rLabels, rHandled,
               rPhase, attempt, calls, waits,
               rErr, rTrace, rYielded, rSkipped, rRest, rCycle, rAbsorbed, rUnparsed>>

\* the device authorization flow of the Gmail OAuth controller
VARIABLES
    oConfigured,    \* config.googleOAuth.clientId and clientSecret are set
    oSources,       \* the ingestionSources table: id -> provider, status, credentials
    oImports,       \* the source ids triggerInitialImport was called for, in order
    oGrant,         \* the device codes at the provider: code -> state of its grant
    oStarted,       \* the HTTP status startDeviceAuth answered with ("" before)
    oReq            \* the pollDeviceAuth requests: position, parameters, locals, answer

oauthVars == <<oConfigured, oSources, oImports, oGrant, oStarted, oReq>>

\* the authorization code flow of the Gmail OAuth controller
VARIABLES
    cRedirectUri,   \* config.googleOAuth.redirectUri is set
    cAuth,          \* the last answer of authorize
    cReq            \* the callback requests: position, parameters, locals, answer

codeVars == <<cRedirectUri, cAuth, cReq>>

\* the device authorization dialog of the ingestion page
VARIABLES
    gmailAuthData,          \* the device code of the dialog ("" for null)
    gmailAuthStatus,        \* 'pending' | 'success' | 'error'
    isGmailAuthDialogOpen,
    pollInterval,           \* the handle of the poll timer (0 for null)
    timers,                 \* the interval timers that run: handle and period
    polls,                  \* the calls of pollGmailAuth that sent a request
    slowedAt,               \* the period of the timer when slow_down was last
                            \* handled in this dialog (0 for never)
    starts,                 \* the calls of startGmailDeviceAuth whose request
                            \* the backend answered with a device code
    mounted                 \* the page component has not been destroyed

pageVars == <<gmailAuthData, gmailAuthStatus, isGmailAuthDialogOpen, pollInterval,
              timers, polls, slowedAt, starts, mounted>>

\* the normalisation of one message into an EmailObject
VARIABLES
    nConnector,     \* the connector that normalises
    mailboxCache,   \* JMAPConnector.mailboxCache: id -> name, parentId
    nEmail,         \* the message of the provider: native thread id, mailbox ids,
                    \* threading headers
    nPc,            \* the position in fetchAndParseEmail / fetchSingleMessage
    nIdx,           \* the index of mailboxIds.map
    parts,          \* getMailboxPath: parts
    current,        \* getMailboxPath: the id of current
    resolved,       \* the calls of getMailboxPath that returned: id and path
    nObject         \* the EmailObject returned

normVars == <<nConnector, mailboxCache, nEmail, nPc, nIdx, parts, current, resolved,
              nObject>>

\* the JMAP import of a mailbox with Trash and Junk
VARIABLES
    allInclusiveArchive,    \* config.app.allInclusiveArchive
    aEmails,        \* the messages of the account: id -> mailboxIds
    aExisting,      \* syncState holds an emailState for the account
    aCreated,       \* changesResult.created of Email/changes since that state
    aUpdated,       \* changesResult.updated
    aPc,            \* the await or yield fetchEmails stands at, or its exit:
                    \* "start" | "mailboxes" | "query" | "q_download" |
                    \* "q_yield" | "changes" | "get" | "c_download" |
                    \* "c_yield" | "done" | "raised" | "stopped"
    aPosition,      \* fetchAllEmails: position
    aI,             \* fetchEmailChanges: i
    aIds,           \* fetchAllEmails: queryResult.ids.length of the round
    aBatch,         \* emails: the list of the Email/get answer being looped over
    aK,             \* the place in emails of the message being handled
    aYielded        \* the ids yielded, in order

archiveVars == <<allInclusiveArchive, aEmails, aExisting, aCreated, aUpdated, aPc,
                 aPosition, aI, aIds, aBatch, aK, aYielded>>

\* one search request of the search service
VARIABLES
    sFilters,       \* dto.filters: the entries [key, value] (<<>> for undefined)
    sSearchFilter,  \* the access-control filter of the user (<<>> for none)
    sPc,            \* the position in searchEmails
    sFilter,        \* searchParams.filter (<<>> for undefined)
    sHits           \* the documents index.search returned

searchVars == <<sFilters, sSearchFilter, sPc, sFilter, sHits>>

\* the variables of the import with Trash and Junk and of the search
extraVars == <<archiveVars, searchVars>>

\* the variables outside the import of a mailbox with Trash and Junk
outsideArchive == <<cycleVars, retryVars, oauthVars, codeVars, pageVars, normVars,
                    searchVars>>

\* the variables outside the search
outsideSearch == <<cycleVars, retryVars, oauthVars, codeVars, pageVars, normVars,
                   archiveVars>>

\* the variables outside the synchronisation cycle
others == <<retryVars, oauthVars, codeVars, pageVars, normVars, extraVars>>

\* the variables outside the provider calls of a cycle
outsideRetry == <<cycleVars, oauthVars, codeVars, pageVars, normVars, extraVars>>

\* the variables outside the device authorization flow
outsideOAuth == <<cycleVars, retryVars, codeVars, pageVars, normVars, extraVars>>

\* the variables outside the authorization code flow, the sources apart
outsideCode == <<cycleVars, retryVars, pageVars, normVars, extraVars, oConfigured,
                 oGrant, oStarted, oReq>>

\* the variables outside the ingestion page, the device codes apart
outsidePage == <<cycleVars, retryVars, codeVars, normVars, extraVars, oConfigured,
                 oSources, oImports, oStarted, oReq>>

\* the variables outside the normalisation of a message
outsideNorm == <<cycleVars, retryVars, oauthVars, codeVars, pageVars, extraVars>>

vars == <<cycleVars, others>>

providerVars == <<live, changeLog, logFloor>>
fields == <<newHistoryId, newEmailState, accountId>>
ghost == <<sentToken, rejected>>

\* ------------------------------------------------------------- SyncState

\* {} : the empty SyncState
EmptyState == [f \in {} |-> NoToken]

GmailState(email, hid) == ("gmail" :> (email :> [historyId |-> hid]))

JmapState(acct, st) == ("jmap" :> (acct :> [emailState |-> st]))

\* a slip: the entry is read under the userId 'me'
GmailLookupMe(s, email) ==
    IF "gmail" \in DOMAIN s /\ "me" \in DOMAIN s["gmail"]
    THEN s["gmail"]["me"].historyId
    ELSE NoToken

\* syncState?.gmail?.[userEmail]?.historyId
GmailLookup(s, email) ==
    IF "gmail" \in DOMAIN s /\ email \in DOMAIN s["gmail"]
    THEN s["gmail"][email].historyId
    ELSE NoToken

\* syncState?.jmap?.[accountId]?.emailState
JmapLookup(s, acct) ==
    IF "jmap" \in DOMAIN s /\ acct \in DOMAIN s["jmap"]
    THEN s["jmap"][acct].emailState
    ELSE NoToken

\* ---------------------------------------------------------------- helpers

Max(S) == CHOOSE m \in S : \A n \in S : n <= m

RECURSIVE Desc(_)
\* the ids of S, newest (largest) first
Desc(S) == IF S = {} THEN <<>> ELSE <<Max(S)>> \o Desc(S \ {Max(S)})

\* the first n elements of s
Take(s, n) == SubSeq(s, 1, IF Len(s) < n THEN Len(s) ELSE n)

\* s without its first n elements
Drop(s, n) == SubSeq(s, n + 1, Len(s))

Range(s) == {s[i] : i \in 1..Len(s)}

Count(s, x) == Cardinality({i \in 1..Len(s) : s[i] = x})

RECURSIVE SelectOps(_, _, _)
\* the log indices from..Len(changeLog) whose entry has operation op, ascending
SelectOps(log, from, op) ==
    IF from > Len(log) THEN <<>>
    ELSE (IF log[from].op = op THEN <<from>> ELSE <<>>) \o SelectOps(log, from + 1, op)

\* ---------------------------------------------------------------- provider

\* the provider's current change-tracking token
ProviderToken == Len(changeLog) + 1

Added == {changeLog[i].id : i \in {j \in 1..Len(changeLog) : changeLog[j].op = "add"}}

Removed == {changeLog[i].id : i \in {j \in 1..Len(changeLog) : changeLog[j].op = "del"}}

Active == pc \notin {"done", "raised", "aborted"}

\* the generator's next step is a call to the provider (or the start of the
\* cycle); a change of the mailbox is observable only through such a call, so
\* the mailbox changes are taken at these positions
AtProviderCall ==
    \/ pc \in {"start", "g_list", "g_profile", "g_history", "j_mailboxes", "j_query",
               "j_changes", "j_get"}
    \/ pc \in {"g_fetch", "g_hfetch"} /\ loc.idx <= Len(loc.page)
    \/ pc \in {"j_fetch", "j_cfetch"} /\ loc.idx <= Len(loc.emails)

\* the locals of a generator that has not started or has ended:
\*   pageToken, page, nextPageToken, historyId   (GmailConnector: the page token,
\*       the message ids of the response being iterated, and the response's
\*       nextPageToken and historyId)
\*   position, queryIds, emails                  (JMAPConnector.fetchAllEmails)
\*   idsToFetch, i, emails                       (JMAPConnector.fetchEmailChanges)
\*   idx                                         (index of the next element of
\*                                                page / emails)
NoLocals ==
    [pageToken |-> NoToken, page |-> <<>>, nextPageToken |-> NoToken,
     historyId |-> NoToken, position |-> 0, queryIds |-> <<>>, emails |-> <<>>,
     idsToFetch |-> <<>>, i |-> 0, idx |-> 1]

\* the cycle has received its first listing and has calls to the provider left,
\* so that a change of the mailbox now falls between two of its calls
Scanning ==
    \/ pc \in {"g_fetch", "g_hfetch", "j_fetch", "j_cfetch", "j_get"}
    \/ pc \in {"g_list", "g_history"} /\ loc.pageToken # NoToken
    \/ pc = "j_query" /\ loc.position > 0

\* a message arrives at the provider
Arrive ==
    /\ AtProviderCall
    /\ Cardinality(Added) < MaxMsgs
    /\ LET m == Cardinality(Added) + 1 IN
        /\ live' = live \cup {m}
        /\ changeLog' = Append(changeLog, [op |-> "add", id |-> m])
        /\ churn' = IF Scanning THEN churn \cup {m} ELSE churn
    /\ UNCHANGED <<others, listed, connector, logFloor, priorState, cycle, pc, mode, fields, loc,
                   yielded, skipped, suspended, ghost, raisedBy, faults, prev>>

\* a message is removed at the provider
Remove ==
    /\ AtProviderCall
    /\ Cardinality(Removed) < MaxRemovals
    /\ \E m \in live :
        /\ live' = live \ {m}
        /\ changeLog' = Append(changeLog, [op |-> "del", id |-> m])
        /\ churn' = IF Scanning THEN churn \cup {m} ELSE churn
    /\ UNCHANGED <<others, listed, connector, logFloor, priorState, cycle, pc, mode, fields, loc,
                   yielded, skipped, suspended, ghost, raisedBy, faults, prev>>

\* users.messages.list: the page after the anchor token (newest first) and the
\* token of the page after it
ListMessagesPage(token) ==
    LET all == Desc({m \in live : token = NoToken \/ m < token})
        ids == Take(all, PageSize)
    IN [messages |-> ids,
        nextPageToken |-> IF Len(all) > PageSize THEN ids[PageSize] ELSE NoToken]

\* users.history.list with historyTypes messageAdded: the records after
\* startHistoryId, or from the record the page token names
ListHistoryPage(startHistoryId, token) ==
    LET from == IF token # NoToken THEN token ELSE startHistoryId
        all == SelectOps(changeLog, from, "add")
        recs == Take(all, PageSize)
    IN [history |-> [i \in 1..Len(recs) |-> changeLog[recs[i]].id],
        nextPageToken |-> IF Len(all) > PageSize THEN all[PageSize + 1] ELSE NoToken,
        historyId |-> ProviderToken]

\* Email/changes: the ids created since the state token that are still in the
\* mailbox, in log order
CreatedSince(sinceState) ==
    LET recs == SelectOps(changeLog, sinceState, "add")
        ids == [i \in 1..Len(recs) |-> changeLog[recs[i]].id]
    IN SelectSeq(ids, LAMBDA m : m \in live)

\* Email/changes: the lists of updated ids the provider can answer with: ids
\* of the mailbox that are not reported as created, each at most once
UpdatedLists(created) ==
    LET ids == live \ Range(created)
    IN {u \in UNION {[1..n -> ids] : n \in 0..MaxUpdated} :
           \A a, b \in DOMAIN u : a # b => u[a] # u[b]}

\* Email/query sorted by receivedAt descending, from position, limit BATCH_SIZE
QueryIds(pos) == Take(Drop(Desc(live), pos), BATCH_SIZE)

\* -------------------------------------------------- the generator's exits

\* the provider answers a call well (ok), or the call counts as a fault
Answer(ok) ==
    IF ok
    THEN UNCHANGED faults
    ELSE /\ faults < MaxFaults
         /\ faults' = faults + 1

\* an error leaves fetchEmails
Raise(by) ==
    /\ pc' = "raised"
    /\ raisedBy' = by
    /\ suspended' = FALSE
    /\ loc' = NoLocals

\* the generator returns
Return ==
    /\ pc' = "done"
    /\ suspended' = FALSE
    /\ loc' = NoLocals
    /\ UNCHANGED raisedBy

\* the generator goes on to position p, with locals l, without yielding
Goto(p, l) ==
    /\ pc' = p
    /\ suspended' = FALSE
    /\ loc' = l
    /\ UNCHANGED raisedBy

\* ---------------------------------------------------------- GmailConnector

\* a slip: the state is dropped
ReturnEmptyState == EmptyState

\* getUpdatedSyncState
GmailGetUpdatedSyncState ==
    IF newHistoryId = NoToken
    THEN EmptyState
    ELSE GmailState(UserEmail, newHistoryId)

\* fetchEmails up to the choice of the strategy
GmailFetchEmails ==
    /\ connector = "gmail"
    /\ pc = "start"
    /\ LET startHistoryId == GmailLookup(priorState, UserEmail) IN
        IF startHistoryId = NoToken
        THEN /\ mode' = "full"
             /\ Goto("g_list", [loc EXCEPT !.pageToken = NoToken])
             /\ UNCHANGED newHistoryId
        ELSE /\ mode' = "incremental"
             /\ newHistoryId' = startHistoryId
             /\ Goto("g_history", [loc EXCEPT !.pageToken = NoToken])
    /\ UNCHANGED <<others, listed, connector, providerVars, priorState, cycle, newEmailState,
                   accountId, yielded, skipped, ghost, churn, faults, prev>>

\* fetchAllMessagesForUser: one users.messages.list call
GmailListMessages ==
    /\ pc = "g_list"
    /\ \E ok \in BOOLEAN :
        /\ Answer(ok)
        /\ IF ~ok
           THEN /\ Raise("messages.list")
                /\ UNCHANGED listed
           ELSE LET resp == ListMessagesPage(loc.pageToken) IN
                /\ listed' = listed \o resp.messages
                /\ IF resp.messages = <<>>
                   THEN Return
                   ELSE Goto("g_fetch", [loc EXCEPT !.page = resp.messages,
                                                    !.nextPageToken = resp.nextPageToken,
                                                    !.idx = 1])
    /\ UNCHANGED <<others, connector, providerVars, priorState, cycle, mode, fields,
                   yielded, skipped, ghost, churn, prev>>

\* a slip: the 404 for a message that is gone is thrown like any other error
GoneIsAnError(m) ==
    IF m \in live THEN {"ok", "noRaw", "parse", "error", "label404"} ELSE {"error"}

\* the outcomes of fetchSingleMessage for message m
GmailFetchOutcomes(m) ==
    IF m \in live THEN {"ok", "noRaw", "parse", "error", "label404"} ELSE {"gone"}

\* the body of the loops over the listed messages: fetchSingleMessage in its
\* try/catch, and the yield
GmailFetchStep(here) ==
    /\ pc = here
    /\ loc.idx <= Len(loc.page)
    /\ \E out \in GmailFetchOutcomes(loc.page[loc.idx]) :
        /\ Answer(out \in {"ok", "gone"})
        /\ CASE out = "ok" ->
                   /\ yielded' = Append(yielded, loc.page[loc.idx])
                   /\ pc' = here
                   /\ suspended' = TRUE
                   /\ loc' = [loc EXCEPT !.idx = @ + 1]
                   /\ UNCHANGED <<skipped, raisedBy>>
             [] out \in {"gone", "label404", "noRaw"} ->
                   /\ skipped' = skipped \cup {<<loc.page[loc.idx], out>>}
                   /\ Goto(here, [loc EXCEPT !.idx = @ + 1])
                   /\ UNCHANGED yielded
             [] OTHER ->
                   /\ Raise(IF out = "parse" THEN "simpleParser" ELSE "messages.get")
                   /\ UNCHANGED <<yielded, skipped>>
    /\ UNCHANGED <<others, listed, connector, providerVars, priorState, cycle, mode, fields,
                   ghost, churn, prev>>

\* fetchAllMessagesForUser: the loop over one page of messages
GmailFetchListed == GmailFetchStep("g_fetch")

\* fetchAllMessagesForUser: the end of the do-while body
GmailNextMessagesPage ==
    /\ pc = "g_fetch"
    /\ loc.idx > Len(loc.page)
    /\ Goto(IF loc.nextPageToken # NoToken THEN "g_list" ELSE "g_profile",
            [loc EXCEPT !.pageToken = loc.nextPageToken])
    /\ UNCHANGED <<others, listed, connector, providerVars, priorState, cycle, mode, fields,
                   yielded, skipped, ghost, churn, faults, prev>>

\* fetchAllMessagesForUser: users.getProfile after the enumeration
GmailGetProfile ==
    /\ pc = "g_profile"
    /\ \E ok \in BOOLEAN :
        /\ Answer(ok)
        /\ IF ok
           THEN /\ newHistoryId' = ProviderToken
                /\ Return
           ELSE /\ Raise("getProfile")
                /\ UNCHANGED newHistoryId
    /\ UNCHANGED <<others, listed, connector, providerVars, priorState, cycle, mode,
                   newEmailState, accountId, yielded, skipped, ghost, churn, prev>>

\* fetchEmails: one users.history.list call
GmailListHistory ==
    /\ pc = "g_history"
    /\ sentToken' = IF loc.pageToken = NoToken THEN newHistoryId ELSE sentToken
    /\ \E ok \in BOOLEAN :
        /\ Answer(ok)
        /\ IF ~ok
           THEN /\ Raise("history.list")
                /\ UNCHANGED <<rejected, listed>>
           ELSE IF loc.pageToken = NoToken /\ newHistoryId < logFloor
           THEN /\ rejected' = TRUE
                /\ Raise("history.list")
                /\ UNCHANGED listed
           ELSE LET resp == ListHistoryPage(newHistoryId, loc.pageToken) IN
                /\ UNCHANGED rejected
                /\ listed' = listed \o resp.history
                /\ IF resp.history = <<>>
                   THEN Return
                   ELSE Goto("g_hfetch", [loc EXCEPT !.page = resp.history,
                                                     !.nextPageToken = resp.nextPageToken,
                                                     !.historyId = resp.historyId,
                                                     !.idx = 1])
    /\ UNCHANGED <<others, connector, providerVars, priorState, cycle, mode, fields,
                   yielded, skipped, churn, prev>>

\* fetchEmails: the loops over the messagesAdded of one history page
GmailFetchAdded == GmailFetchStep("g_hfetch")

\* a slip: the historyId of the response is never taken over
StaleHistoryId == newHistoryId

\* fetchEmails: the cursor after a history page, if (historyResponse.data.historyId)
AdvancedHistoryId ==
    IF loc.historyId # NoToken THEN loc.historyId ELSE newHistoryId

\* fetchEmails: the end of the do-while body
GmailNextHistoryPage ==
    /\ pc = "g_hfetch"
    /\ loc.idx > Len(loc.page)
    /\ newHistoryId' = AdvancedHistoryId
    /\ IF loc.nextPageToken # NoToken
       THEN Goto("g_history", [loc EXCEPT !.pageToken = loc.nextPageToken])
       ELSE Return
    /\ UNCHANGED <<others, listed, connector, providerVars, priorState, cycle, mode,
                   newEmailState, accountId, yielded, skipped, ghost, churn, faults, prev>>

\* ----------------------------------------------------------- JMAPConnector

JmapGetUpdatedSyncState ==
    IF accountId = "" \/ newEmailState = NoToken
    THEN EmptyState
    ELSE JmapState(accountId, newEmailState)

\* testConnection and listAllUsers of the connector, called before the cycle:
\* getAccountId sets this.accountId from the session
JmapTestConnection ==
    /\ connector = "jmap"
    /\ pc = "start"
    /\ accountId = ""
    /\ accountId' = SessionAccountId
    /\ UNCHANGED <<others, listed, connector, providerVars, priorState, cycle, pc, mode,
                   newHistoryId, newEmailState, loc, yielded, skipped, suspended, ghost,
                   raisedBy, churn, faults, prev>>

\* fetchEmails: getAccountId, which fetches the session unless this.accountId
\* is set; the request fails, or the session has no account for mail
JmapFetchEmails ==
    /\ connector = "jmap"
    /\ pc = "start"
    /\ IF accountId # ""
       THEN /\ Goto("j_mailboxes", loc)
            /\ UNCHANGED <<accountId, faults>>
       ELSE \E out \in {"ok", "fail", "noMailAccount"} :
            /\ Answer(out = "ok")
            /\ IF out = "ok"
               THEN /\ accountId' = SessionAccountId
                    /\ Goto("j_mailboxes", loc)
               ELSE /\ Raise(IF out = "fail" THEN "session" ELSE "getAccountId")
                    /\ UNCHANGED accountId
    /\ UNCHANGED <<others, listed, connector, providerVars, priorState, cycle, mode,
                   newHistoryId, newEmailState, yielded, skipped, ghost, churn, prev>>

\* fetchEmails: fetchMailboxes, one Mailbox/get request made once, and the
\* choice of the strategy
JmapFetchMailboxes ==
    /\ pc = "j_mailboxes"
    /\ \E ok \in BOOLEAN :
        /\ Answer(ok)
        /\ IF ~ok
           THEN /\ Raise("Mailbox/get")
                /\ UNCHANGED mode
           ELSE LET existingState == JmapLookup(priorState, accountId) IN
                IF existingState # NoToken
                THEN /\ mode' = "incremental"
                     /\ Goto("j_changes", loc)
                ELSE /\ mode' = "full"
                     /\ Goto("j_query", [loc EXCEPT !.position = 0])
    /\ UNCHANGED <<others, listed, connector, providerVars, priorState, cycle, fields,
                   yielded, skipped, ghost, churn, prev>>

\* Email/get for the ids of the query: the ids the provider no longer finds
\* by then (its notFound list) are any of the ids, as far as removals go
NotFoundSets(ids) ==
    {S \in SUBSET Range(ids) : Cardinality(Removed) + Cardinality(S) <= MaxRemovals}

\* the log records of the removal of the ids of S, in the order of ids
Removals(ids, S) ==
    LET gone == SelectSeq(ids, LAMBDA m : m \in S)
    IN [i \in 1..Len(gone) |-> [op |-> "del", id |-> gone[i]]]

\* fetchAllEmails: one Email/query + Email/get request under withRetry
JmapQuery ==
    /\ pc = "j_query"
    /\ \E ok \in BOOLEAN :
        /\ Answer(ok)
        /\ IF ~ok
           THEN /\ Raise("Email/query")
                /\ UNCHANGED <<newEmailState, listed, providerVars, churn>>
           ELSE \E notFound \in NotFoundSets(QueryIds(loc.position)) :
                LET ids == QueryIds(loc.position)
                    emails == SelectSeq(ids, LAMBDA m : m \notin notFound)
                IN
                /\ live' = live \ notFound
                /\ changeLog' = changeLog \o Removals(ids, notFound)
                /\ churn' = churn \cup notFound
                /\ newEmailState' = Len(changeLog') + 1
                /\ listed' = listed \o emails
                /\ Goto("j_fetch", [loc EXCEPT !.queryIds = ids,
                                               !.emails = emails,
                                               !.idx = 1])
                /\ UNCHANGED logFloor
    /\ UNCHANGED <<others, connector, priorState, cycle, mode,
                   newHistoryId, accountId, yielded, skipped, ghost, prev>>

\* the outcomes of fetchAndParseEmail for message m
JmapFetchOutcomes(m) ==
    IF m \in live THEN {"ok", "parse", "error"} ELSE {"gone"}

\* the body of the loops over the emails of a batch: fetchAndParseEmail in its
\* try/catch, and the yield
JmapFetchStep(here) ==
    /\ pc = here
    /\ loc.idx <= Len(loc.emails)
    /\ \E out \in JmapFetchOutcomes(loc.emails[loc.idx]) :
        /\ Answer(out \in {"ok", "gone"})
        /\ IF out = "ok"
           THEN /\ yielded' = Append(yielded, loc.emails[loc.idx])
                /\ pc' = here
                /\ suspended' = TRUE
                /\ loc' = [loc EXCEPT !.idx = @ + 1]
                /\ UNCHANGED <<skipped, raisedBy>>
           ELSE /\ skipped' = skipped \cup {<<loc.emails[loc.idx], out>>}
                /\ Goto(here, [loc EXCEPT !.idx = @ + 1])
                /\ UNCHANGED yielded
    /\ UNCHANGED <<others, listed, connector, providerVars, priorState, cycle, mode, fields,
                   ghost, churn, prev>>

\* fetchAllEmails: the loop over the emails of one batch
JmapFetchListed == JmapFetchStep("j_fetch")

\* fetchAllEmails: the end of the while body
JmapEndOfBatch ==
    /\ pc = "j_fetch"
    /\ loc.idx > Len(loc.emails)
    /\ IF Len(loc.queryIds) = BATCH_SIZE
       THEN Goto("j_query", [loc EXCEPT !.position = @ + Len(loc.emails)])
       ELSE Return
    /\ UNCHANGED <<others, listed, connector, providerVars, priorState, cycle, mode, fields,
                   yielded, skipped, ghost, churn, faults, prev>>

\* a slip: the cannotCalculateChanges answer is thrown like any other error
JmapThrowCannotCalculate ==
    /\ Raise("Email/changes")
    /\ UNCHANGED mode

\* fetchEmailChanges: errorType === 'cannotCalculateChanges', the full re-sync
JmapFallback ==
    /\ mode' = "fallback"
    /\ Goto("j_query", [loc EXCEPT !.position = 0])

\* err.message of the error withRetry throws for a failed request, and of
\* new Error(`JMAP error: ${errorType}`)
TransportMessage == "Request failed with status code 500"

JmapErrorMessage(errorType) == "JMAP error: " \o errorType

\* message.includes(word): the word is found at some place of the message
MessageIncludes(message, word) ==
    \E i \in 1..(Len(message) + 1 - Len(word)) :
        SubSeq(message, i, i + Len(word) - 1) = word

\* fetchEmailChanges, catch: err.message?.includes('cannotCalculateChanges')
CatchFallsBack(message) == MessageIncludes(message, "cannotCalculateChanges")

\* fetchEmailChanges, catch: the full re-sync, or the error is thrown on
ChangesCaught(message) ==
    IF CatchFallsBack(message)
    THEN JmapFallback
    ELSE Raise("Email/changes") /\ UNCHANGED mode

\* fetchEmailChanges: the Email/changes request under withRetry, and the
\* fallback to fetchAllEmails
JmapChanges ==
    /\ pc = "j_changes"
    /\ LET sinceState == JmapLookup(priorState, accountId) IN
        /\ sentToken' = sinceState
        /\ \E out \in {"ok", "fail", "serverFail", "xcannotCalculateChangesy"} :
            /\ Answer(out = "ok")
            /\ CASE out = "fail" ->
                       /\ ChangesCaught(TransportMessage)
                       /\ UNCHANGED <<newEmailState, rejected>>
                 [] out \notin {"ok", "fail"} ->
                       /\ ChangesCaught(JmapErrorMessage(out))
                       /\ UNCHANGED <<newEmailState, rejected>>
                 [] out = "ok" /\ sinceState < logFloor ->
                       /\ rejected' = TRUE
                       /\ JmapFallback
                       /\ UNCHANGED newEmailState
                 [] OTHER ->
                       \E updated \in UpdatedLists(CreatedSince(sinceState)) :
                       LET idsToFetch == CreatedSince(sinceState) \o updated IN
                       /\ newEmailState' = ProviderToken
                       /\ IF idsToFetch = <<>>
                          THEN Return
                          ELSE Goto("j_get", [loc EXCEPT !.idsToFetch = idsToFetch,
                                                         !.i = 0])
                       /\ UNCHANGED <<mode, rejected>>
    /\ UNCHANGED <<others, listed, connector, providerVars, priorState, cycle, newHistoryId,
                   accountId, yielded, skipped, churn, prev>>

\* fetchEmailChanges: the Email/get request of one batch under withRetry
JmapGetBatch ==
    /\ pc = "j_get"
    /\ \E ok \in BOOLEAN :
        /\ Answer(ok)
        /\ IF ~ok
           THEN /\ Raise("Email/get")
                /\ UNCHANGED listed
           ELSE LET emails == SelectSeq(Take(Drop(loc.idsToFetch, loc.i), BATCH_SIZE),
                                        LAMBDA m : m \in live) IN
                /\ listed' = listed \o emails
                /\ Goto("j_cfetch", [loc EXCEPT !.emails = emails, !.idx = 1])
    /\ UNCHANGED <<others, connector, providerVars, priorState, cycle, mode, fields,
                   yielded, skipped, ghost, churn, prev>>

\* fetchEmailChanges: the loop over the emails of one batch
JmapFetchChanged == JmapFetchStep("j_cfetch")

\* fetchEmailChanges: the step of the for loop over the batches
JmapNextBatch ==
    /\ pc = "j_cfetch"
    /\ loc.idx > Len(loc.emails)
    /\ IF loc.i + BATCH_SIZE < Len(loc.idsToFetch)
       THEN Goto("j_get", [loc EXCEPT !.i = @ + BATCH_SIZE])
       ELSE Return
    /\ UNCHANGED <<others, listed, connector, providerVars, priorState, cycle, mode, fields,
                   yielded, skipped, ghost, churn, faults, prev>>

\* ------------------------------------------------------------ the consumer

\* getUpdatedSyncState of the connector of this ingestion source
GetUpdatedSyncState ==
    IF connector = "gmail" THEN GmailGetUpdatedSyncState ELSE JmapGetUpdatedSyncState

\* the consumer stops pulling after an item and never resumes the generator
Abort ==
    /\ Active
    /\ suspended
    /\ pc' = "aborted"
    /\ suspended' = FALSE
    /\ loc' = NoLocals
    /\ UNCHANGED <<others, listed, connector, providerVars, priorState, cycle, mode, fields,
                   yielded, skipped, ghost, raisedBy, churn, faults, prev>>

\* the summary of a cycle that was not drained, or of no cycle
NoCycle == [mode |-> "none", outcome |-> "none", yielded |-> <<>>,
            skipped |-> {}, churn |-> {}]

\* the next cycle of the source: a new connector instance; the cursor of a
\* drained cycle is passed back verbatim, any other cycle is discarded whole
NextCycle ==
    /\ ~Active
    /\ cycle < MaxCycles
    /\ cycle' = cycle + 1
    /\ priorState' = IF pc = "done" THEN GetUpdatedSyncState ELSE priorState
    /\ prev' = IF pc = "done"
               THEN [mode |-> mode, outcome |-> pc, yielded |-> yielded,
                     skipped |-> {p[1] : p \in skipped}, churn |-> churn]
               ELSE [NoCycle EXCEPT !.outcome = pc]
    /\ pc' = "start"
    /\ mode' = "none"
    /\ newHistoryId' = NoToken
    /\ newEmailState' = NoToken
    /\ accountId' = ""
    /\ loc' = NoLocals
    /\ yielded' = <<>>
    /\ skipped' = {}
    /\ suspended' = FALSE
    /\ sentToken' = NoToken
    /\ rejected' = FALSE
    /\ raisedBy' = ""
    /\ churn' = {}
    /\ listed' = <<>>
    /\ UNCHANGED <<others, connector, providerVars, faults>>

\* ------------------------------------------- provider calls and withRetry

\* the outcome of one invocation of a provider call: success, or the error
\* thrown (err instanceof AxiosError, err.code, err.response?.status; status 0
\* stands for an error without a response)
Outcome(ok, axios, code, status) ==
    [ok |-> ok, axios |-> axios, code |-> code, status |-> status]

Success == Outcome(TRUE, FALSE, "", 200)
NoError == Outcome(TRUE, FALSE, "", 0)
ConnReset == Outcome(FALSE, TRUE, "ECONNRESET", 0)
TimedOut == Outcome(FALSE, TRUE, "ETIMEDOUT", 0)
HttpError(status) == Outcome(FALSE, TRUE, "ERR_BAD_RESPONSE", status)
\* an error that is no AxiosError (a TypeError on a malformed response)
PlainError == Outcome(FALSE, FALSE, "", 0)

\* what one invocation of a provider call can answer
Outcomes ==
    {Success, ConnReset, TimedOut, HttpError(500), HttpError(429), HttpError(404),
     PlainError}

\* a slip: every error is retried
RetryAnyError(err) == TRUE

\* withRetry: isRetryable
IsRetryable(err) ==
    /\ err.axios
    /\ \/ err.code = "ECONNRESET"
       \/ err.code = "ETIMEDOUT"
       \/ (err.status # 0 /\ err.status >= 500)

\* a slip: the delay grows by a second with each attempt
LinearDelay(a) == a * 1000

\* withRetry: delay = Math.pow(2, attempt) * 1000
Delay(a) == (2 ^ a) * 1000

\* withRetry: jitter = Math.random() * 1000, the ends of [0, 1000)
Jitters == {0, 999}

\* a slip: the last attempt is given away
GivesUpEarly == attempt = maxRetries - 1

\* withRetry: attempt === maxRetries
LastAttempt == attempt = maxRetries

\* a slip: the loop variable is not incremented
SameAttempt == attempt

\* withRetry: attempt++ of the for loop
NextAttempt == attempt + 1

\* the calls made under withRetry: Email/query + Email/get of fetchAllEmails,
\* Email/changes and Email/get of fetchEmailChanges, downloadBlob
Wrapped(site) == site \in {"Email/query", "Email/changes", "Email/get", "download"}

\* the first request of a cycle: the full import or the delta since the
\* stored cursor
BatchSites(c) ==
    IF c = "jmap"
    THEN {"Email/query", "Email/changes"}
    ELSE {"messages.list", "history.list"}

\* the catch of the loop over the items swallows the error: every error in
\* JMAPConnector, error.code === 404 in GmailConnector
ItemErrorSwallowed(c, err) ==
    IF c = "jmap" THEN TRUE ELSE err.status = 404

\* the errors the retry policy calls transient: connection reset, timeout, 5xx
TransientErrors == {ConnReset, TimedOut, HttpError(500)}

\* the first n attempts of the running call failed with a transient error
FailedTransiently(n) ==
    /\ Len(rTrace) >= n
    /\ \A i \in 1..n : rTrace[i] \in TransientErrors

\* the running call failed transiently at every attempt but the last, which
\* succeeded
AbsorbedCall ==
    /\ Len(rTrace) = maxRetries
    /\ FailedTransiently(maxRetries - 1)
    /\ rTrace[maxRetries].ok

\* the loop over the batch is entered or goes on: the last call was the one
\* that fetched the batch, or a call for an item
InLoop == rSite \notin {"Email/changes", "getProfile"}

\* the cycle makes its next provider call: its first request; Email/get for
\* the ids of Email/changes; for the next item of the batch downloadBlob, or
\* messages.get with format METADATA, then labels.get for each label that is
\* not in labelCache and messages.get with format RAW; users.getProfile after
\* the last message of fetchAllMessagesForUser
CallStart ==
    /\ rCycle = "running"
    /\ \/ /\ rPhase = "idle"
          /\ rIdx' = 0
          /\ rSite' = rBatchSite
          /\ rFormat' = ""
          /\ UNCHANGED rLabels
       \/ /\ rPhase = "handled"
          /\ rSite = "Email/changes"
          /\ rIdx' = 0
          /\ rSite' = "Email/get"
          /\ rFormat' = ""
          /\ UNCHANGED rLabels
       \/ /\ rPhase = "handled"
          /\ InLoop
          /\ rHandled < rN
          /\ rIdx' = rHandled + 1
          /\ rSite' = IF rConn = "jmap" THEN "download" ELSE "messages.get"
          /\ rFormat' = IF rConn = "jmap" THEN "" ELSE "METADATA"
          /\ rLabels' = 0
       \/ /\ rPhase = "next"
          /\ rLabels < MaxLabels
          /\ rSite' = "labels.get"
          /\ rFormat' = ""
          /\ rLabels' = rLabels + 1
          /\ UNCHANGED rIdx
       \/ /\ rPhase = "next"
          /\ rSite' = "messages.get"
          /\ rFormat' = "RAW"
          /\ UNCHANGED <<rIdx, rLabels>>
       \/ /\ rPhase = "handled"
          /\ rBatchSite = "messages.list"
          /\ InLoop
          /\ rHandled = rN
          /\ rIdx' = 0
          /\ rSite' = "getProfile"
          /\ rFormat' = ""
          /\ UNCHANGED rLabels
    /\ rPhase' = "attempt"
    /\ attempt' = 1
    /\ calls' = 0
    /\ waits' = <<>>
    /\ rErr' = NoError
    /\ rTrace' = <<>>
    /\ rRest' = ""
    /\ UNCHANGED <<outsideRetry, rConn, rBatchSite, rN, rHandled, rYielded, rSkipped,
                   rCycle, rAbsorbed, rUnparsed>>

\* withRetry: one pass of the loop body up to the decision to retry
WithRetryAttempt ==
    /\ rPhase = "attempt"
    /\ Wrapped(rSite)
    /\ attempt <= maxRetries
    /\ \E out \in Outcomes :
        /\ calls' = calls + 1
        /\ rTrace' = Append(rTrace, out)
        /\ IF out.ok
           THEN rPhase' = "returned" /\ UNCHANGED rErr
           ELSE IF ~IsRetryable(out) \/ LastAttempt
           THEN rPhase' = "thrown" /\ rErr' = out
           ELSE rPhase' = "backoff" /\ UNCHANGED rErr
    /\ UNCHANGED <<outsideRetry, rConn, rBatchSite, rN, rIdx, rSite, rFormat, rLabels,
                   rHandled, attempt, waits, rYielded, rSkipped, rRest, rCycle,
                   rAbsorbed, rUnparsed>>

\* withRetry: the wait before the next attempt
WithRetryBackoff ==
    /\ rPhase = "backoff"
    /\ \E jitter \in Jitters : waits' = Append(waits, Delay(attempt) + jitter)
    /\ attempt' = NextAttempt
    /\ rPhase' = "attempt"
    /\ UNCHANGED <<outsideRetry, rConn, rBatchSite, rN, rIdx, rSite, rFormat, rLabels,
                   rHandled, calls, rErr, rTrace, rYielded, rSkipped, rRest, rCycle,
                   rAbsorbed, rUnparsed>>

\* GmailConnector: the awaited call of the API client, made once
DirectCall ==
    /\ rPhase = "attempt"
    /\ ~Wrapped(rSite)
    /\ \E out \in Outcomes :
        /\ calls' = calls + 1
        /\ rTrace' = Append(rTrace, out)
        /\ IF out.ok
           THEN rPhase' = "returned" /\ UNCHANGED rErr
           ELSE rPhase' = "thrown" /\ rErr' = out
    /\ UNCHANGED <<outsideRetry, rConn, rBatchSite, rN, rIdx, rSite, rFormat, rLabels,
                   rHandled, attempt, waits, rYielded, rSkipped, rRest, rCycle,
                   rAbsorbed, rUnparsed>>

\* what follows the call that returned for an item: simpleParser throws, the
\* RAW answer of Gmail has no raw content and fetchSingleMessage returns null,
\* or the EmailObject is built
RestOutcomes(c) ==
    IF c = "jmap" THEN {"object", "throws"} ELSE {"object", "null", "throws"}

\* the method-level errors the answer of a JMAP request can carry in its
\* methodResponses ("" for none); the blob download is a plain HTTP GET
MethodErrors(site) ==
    IF site \in {"Email/query", "Email/changes", "Email/get"}
    THEN {"", "serverFail", "cannotCalculateChanges", "xcannotCalculateChangesy"}
    ELSE {""}

\* the error the generator throws for an answer that is a method-level error:
\* fetchEmailChanges checks methodResponses[0][0] === 'error' of Email/changes
\* and throws new Error('JMAP error: ' + type); the answers of Email/query and
\* Email/get are not checked, the list of an error answer is undefined and the
\* loop over it throws a TypeError
MethodErrorMessage(site, errorType) ==
    IF site = "Email/changes" THEN JmapErrorMessage(errorType)
    ELSE "emails is not iterable"

\* fetchEmailChanges runs fetchAllEmails for the answer of Email/changes:
\* errorType === 'cannotCalculateChanges', or the catch for the error thrown
\* for another type
FullResync(errorType) ==
    \/ errorType = "cannotCalculateChanges"
    \/ CatchFallsBack(JmapErrorMessage(errorType))

\* fetchSingleMessage goes on to its next call after this one: the METADATA
\* answer and the answers of labels.get
MoreCallsForItem ==
    rConn = "gmail" /\ (rFormat = "METADATA" \/ rSite = "labels.get")

\* the generator goes on after the call. A call outside the loop returned:
\* the batch is there or the profile is read, the answer of Email/changes
\* makes fetchEmailChanges run fetchAllEmails, which starts with its
\* Email/query, or the answer is another method-level error, whose error
\* leaves fetchEmails. A call for an item returned: the next call for the
\* item follows, or it was the last one and the item is yielded if its
\* EmailObject is built and left out when there is none. A call threw: the
\* catch of the loop swallows the error of an item, or the error leaves
\* fetchEmails
CallerResume ==
    /\ rPhase \in {"returned", "thrown"}
    /\ rAbsorbed' = IF rPhase = "returned" /\ AbsorbedCall
                    THEN rAbsorbed \cup {rIdx} ELSE rAbsorbed
    /\ IF rPhase = "returned" /\ rIdx = 0
       THEN \E errorType \in MethodErrors(rSite) :
            /\ rRest' = errorType
            /\ IF errorType = ""
               THEN /\ rPhase' = "handled"
                    /\ UNCHANGED <<rBatchSite, rCycle>>
               ELSE IF rSite = "Email/changes" /\ FullResync(errorType)
               THEN /\ rPhase' = "idle"
                    /\ rBatchSite' = "Email/query"
                    /\ UNCHANGED rCycle
               ELSE /\ rPhase' = "handled"
                    /\ rCycle' = "raised"
                    /\ UNCHANGED rBatchSite
            /\ UNCHANGED <<rHandled, rYielded, rSkipped, rUnparsed>>
       ELSE IF rPhase = "returned" /\ MoreCallsForItem
       THEN /\ rPhase' = "next"
            /\ UNCHANGED <<rHandled, rYielded, rSkipped, rUnparsed, rRest, rCycle,
                           rBatchSite>>
       ELSE IF rPhase = "returned"
       THEN \E rest \in RestOutcomes(rConn) :
            /\ rRest' = rest
            /\ rYielded' = IF rest = "object" THEN rYielded \cup {rIdx} ELSE rYielded
            /\ rUnparsed' = IF rest = "object" THEN rUnparsed ELSE rUnparsed \cup {rIdx}
            /\ IF rest = "throws" /\ rConn = "gmail"
               THEN rCycle' = "raised" /\ UNCHANGED rHandled
               ELSE rHandled' = rIdx /\ UNCHANGED rCycle
            /\ rPhase' = "handled"
            /\ UNCHANGED <<rSkipped, rBatchSite>>
       ELSE IF rIdx # 0 /\ ItemErrorSwallowed(rConn, rErr)
       THEN /\ rSkipped' = rSkipped \cup {rIdx}
            /\ rHandled' = rIdx
            /\ rPhase' = "handled"
            /\ UNCHANGED <<rYielded, rRest, rCycle, rBatchSite, rUnparsed>>
       ELSE /\ rCycle' = "raised"
            /\ rPhase' = "handled"
            /\ UNCHANGED <<rHandled, rYielded, rSkipped, rRest, rBatchSite, rUnparsed>>
    /\ UNCHANGED <<outsideRetry, rConn, rN, rIdx, rSite, rFormat, rLabels, attempt,
                   calls, waits, rErr, rTrace>>

\* the generator returns: the loop is through with the batch and, in
\* fetchAllMessagesForUser, users.getProfile has answered
CycleEnd ==
    /\ rCycle = "running"
    /\ rPhase = "handled"
    /\ rHandled = rN
    /\ IF rBatchSite = "messages.list" THEN rSite = "getProfile" ELSE InLoop
    /\ rCycle' = "done"
    /\ UNCHANGED <<outsideRetry, rConn, rBatchSite, rN, rIdx, rSite, rFormat, rLabels,
                   rHandled, rPhase, attempt, calls, waits, rErr, rTrace, rYielded,
                   rSkipped, rRest, rAbsorbed, rUnparsed>>

\* no call is being made
RetryIdle ==
    /\ rConn = "jmap"
    /\ rBatchSite = "Email/query"
    /\ rN = 0
    /\ rIdx = 0
    /\ rSite = ""
    /\ rFormat = ""
    /\ rLabels = 0
    /\ rHandled = 0
    /\ rPhase = "idle"
    /\ attempt = 1
    /\ calls = 0
    /\ waits = <<>>
    /\ rErr = NoError
    /\ rTrace = <<>>
    /\ rYielded = {}
    /\ rSkipped = {}
    /\ rRest = ""
    /\ rCycle = "done"
    /\ rAbsorbed = {}
    /\ rUnparsed = {}

\* a cycle of either connector about to make its first call
RetryInit ==
    /\ rConn \in Connectors
    /\ rBatchSite \in BatchSites(rConn)
    /\ rN \in 1..MaxItems
    /\ rIdx = 0
    /\ rSite = ""
    /\ rFormat = ""
    /\ rLabels = 0
    /\ rHandled = 0
    /\ rPhase = "idle"
    /\ attempt = 1
    /\ calls = 0
    /\ waits = <<>>
    /\ rErr = NoError
    /\ rTrace = <<>>
    /\ rYielded = {}
    /\ rSkipped = {}
    /\ rRest = ""
    /\ rCycle = "running"
    /\ rAbsorbed = {}
    /\ rUnparsed = {}

\* --------------------------------------- GmailOAuthController: device flow

\* the ingestion sources of the database: a Gmail source waiting for its
\* authorization and a source of another provider
SourceIds == {"s1", "s2"}

InitialSources ==
    [id \in SourceIds |->
        IF id = "s1"
        THEN [provider |-> "gmail", status |-> "pending_auth", credentials |-> <<>>]
        ELSE [provider |-> "imap", status |-> "active", credentials |-> <<"imap">>]]

\* req.query.sourceId: missing, a Gmail source, another source, no source
SourceIdParams == {"", "s1", "s2", "s9"}

\* the device codes the provider issues, in this order
DeviceCodes == <<"dc1", "dc2">>

\* req.query.deviceCode: missing, or a device code issued by startDeviceAuth
DeviceCodeParams == {""} \cup Range(DeviceCodes)

\* pollDeviceAuth: 'No refresh token received. Please try again.'
NoRefreshTokenMessage == "No refresh token received. Please try again."

\* CryptoService.encryptObject(credentials)
EncryptObject(credentials) == <<"encrypted", credentials>>

\* the GmailCredentials written for a refresh token and an account email
GmailCredentialsOf(refreshToken, userEmail) ==
    [type |-> "gmail", refreshToken |-> refreshToken, userEmail |-> userEmail]

\* the JSON body of the token endpoint's answer
TokenAnswer(error, refreshToken) ==
    [error |-> error, error_description |-> "", refresh_token |-> refreshToken]

\* an error answer that carries an error_description
DescribedAnswer(error, description) ==
    [error |-> error, error_description |-> description, refresh_token |-> ""]

\* no answer of the token endpoint has arrived
NoAnswer == TokenAnswer("no answer", "")

\* the refresh token the provider issues for a device code
RefreshTokenOf(deviceCode) ==
    LET i == CHOOSE n \in DOMAIN DeviceCodes : DeviceCodes[n] = deviceCode IN
    <<"rt1", "rt2">>[i]

\* what the token endpoint answers for a device code, given the grants: the
\* user has not decided yet, has granted (the code is redeemed by the answer
\* that carries the tokens), has denied, or the code is expired or unknown
TokenAnswers(deviceCode, grants) ==
    IF deviceCode \notin DOMAIN grants \/ grants[deviceCode] \in {"none", "redeemed"}
    THEN {TokenAnswer("invalid_grant", "")}
    ELSE CASE grants[deviceCode] = "pending" ->
                  {TokenAnswer("authorization_pending", ""), TokenAnswer("slow_down", "")}
           [] grants[deviceCode] = "granted" ->
                  {TokenAnswer("slow_down", ""),
                   TokenAnswer("", RefreshTokenOf(deviceCode)), TokenAnswer("", "")}
           [] grants[deviceCode] = "denied" ->
                  {TokenAnswer("access_denied", ""),
                   DescribedAnswer("access_denied", "Forbidden")}
           [] OTHER -> {TokenAnswer("expired_token", "")}

\* a request that has not arrived
NoRequest ==
    [pc |-> "idle", sourceId |-> "", deviceCode |-> "", data |-> NoAnswer,
     userEmail |-> "", http |-> 0, status |-> "", message |-> "",
     wrote |-> FALSE, triggered |-> FALSE]

\* a slip: the pending answer is not recognised
PendingUnrecognised(data) == FALSE

\* pollDeviceAuth: data.error === 'authorization_pending'
IsAuthorizationPending(data) == data.error = "authorization_pending"

\* pollDeviceAuth: data.error_description || data.error
ErrorMessage(data) ==
    IF data.error_description # "" THEN data.error_description ELSE data.error

\* pollDeviceAuth: data.error === 'slow_down'
IsSlowDown(data) == data.error = "slow_down"

\* a slip: whatever the token endpoint sent counts as a refresh token
AnyTokens(data) == TRUE

\* pollDeviceAuth: data.refresh_token is there
HasRefreshToken(data) == data.refresh_token # ""

\* res.status(http).json({ status, ... }) of request r
Respond(r, http, status) ==
    oReq' = [oReq EXCEPT ![r].pc = "responded", ![r].http = http, ![r].status = status]

\* the device codes the provider has not issued yet
Unissued == {i \in DOMAIN DeviceCodes : oGrant[DeviceCodes[i]] = "none"}

\* startDeviceAuth: the checks of the request, and the device code requested
\* from the provider; every start is given a device code of its own. The
\* catch answers 500 when IngestionService.findById rejects, whatever the
\* source, and when the request for the device code fails
StartDeviceAuth ==
    /\ Unissued # {}
    /\ \E sourceId \in SourceIdParams, found \in BOOLEAN, ok \in BOOLEAN :
        IF sourceId = "" THEN oStarted' = "400" /\ UNCHANGED oGrant
        ELSE IF ~oConfigured THEN oStarted' = "500" /\ UNCHANGED oGrant
        ELSE IF ~found THEN oStarted' = "500" /\ UNCHANGED oGrant
        ELSE IF sourceId \notin DOMAIN oSources THEN oStarted' = "404" /\ UNCHANGED oGrant
        ELSE IF oSources[sourceId].provider # "gmail"
        THEN oStarted' = "400" /\ UNCHANGED oGrant
        ELSE IF ~ok THEN oStarted' = "500" /\ UNCHANGED oGrant
        ELSE /\ oStarted' = "200"
             /\ LET i == CHOOSE n \in Unissued : \A k \in Unissued : n <= k IN
                oGrant' = [oGrant EXCEPT ![DeviceCodes[i]] = "pending"]
    /\ UNCHANGED <<outsideOAuth, oConfigured, oSources, oImports, oReq>>

\* the user decides at the verification URL, or the device code expires
UserDecides ==
    \E dc \in DOMAIN oGrant :
        /\ oGrant[dc] = "pending"
        /\ \E g \in {"granted", "denied", "expired"} :
              oGrant' = [oGrant EXCEPT ![dc] = g]
        /\ UNCHANGED <<outsideOAuth, oConfigured, oSources, oImports, oReq, oStarted>>

\* pollDeviceAuth: the checks of the request parameters and the configuration
PollReceive(r) ==
    /\ oReq[r].pc = "idle"
    /\ \E sourceId \in SourceIdParams, deviceCode \in DeviceCodeParams :
        LET req == [oReq[r] EXCEPT !.sourceId = sourceId, !.deviceCode = deviceCode] IN
        IF sourceId = "" \/ deviceCode = ""
        THEN oReq' = [oReq EXCEPT ![r] = [req EXCEPT !.pc = "responded", !.http = 400]]
        ELSE IF ~oConfigured
        THEN oReq' = [oReq EXCEPT ![r] = [req EXCEPT !.pc = "responded", !.http = 500]]
        ELSE oReq' = [oReq EXCEPT ![r] = [req EXCEPT !.pc = "token"]]
    /\ UNCHANGED <<outsideOAuth, oConfigured, oSources, oImports, oGrant, oStarted>>

\* pollDeviceAuth: the request to the token endpoint and the handling of its
\* answer up to the tokens
PollToken(r) ==
    /\ oReq[r].pc = "token"
    /\ \/ \* fetch or response.json() throws: the catch answers
          /\ Respond(r, 200, "error")
          /\ UNCHANGED oGrant
       \/ \E data \in TokenAnswers(oReq[r].deviceCode, oGrant) :
            /\ oGrant' = IF data.error = ""
                         THEN [oGrant EXCEPT ![oReq[r].deviceCode] = "redeemed"]
                         ELSE oGrant
            /\ IF IsAuthorizationPending(data)
               THEN oReq' = [oReq EXCEPT ![r].pc = "responded", ![r].data = data,
                                         ![r].http = 200, ![r].status = "pending"]
               ELSE IF IsSlowDown(data)
               THEN oReq' = [oReq EXCEPT ![r].pc = "responded", ![r].data = data,
                                         ![r].http = 200, ![r].status = "slow_down"]
               ELSE IF data.error # ""
               THEN oReq' = [oReq EXCEPT ![r].pc = "responded", ![r].data = data,
                                         ![r].http = 200, ![r].status = "error",
                                         ![r].message = ErrorMessage(data)]
               ELSE IF ~HasRefreshToken(data)
               THEN oReq' = [oReq EXCEPT ![r].pc = "responded", ![r].data = data,
                                         ![r].http = 200, ![r].status = "error",
                                         ![r].message = NoRefreshTokenMessage]
               ELSE oReq' = [oReq EXCEPT ![r].pc = "userinfo", ![r].data = data]
    /\ UNCHANGED <<outsideOAuth, oConfigured, oSources, oImports, oStarted>>

\* pollDeviceAuth: oauth2.userinfo.get() and the check of the email
PollUserInfo(r) ==
    /\ oReq[r].pc = "userinfo"
    /\ \E out \in {"email", "noEmail", "throws"} :
        IF out # "email"
        THEN Respond(r, 200, "error")
        ELSE oReq' = [oReq EXCEPT ![r].pc = "update", ![r].userEmail = UserEmail]
    /\ UNCHANGED <<outsideOAuth, oConfigured, oSources, oImports, oGrant, oStarted>>

\* pollDeviceAuth: db.update(ingestionSources).set({ credentials, status })
\* .where(eq(id, sourceId)); no row is updated for an id that is not there
PollUpdate(r) ==
    /\ oReq[r].pc = "update"
    /\ \E ok \in BOOLEAN :
        IF ~ok
        THEN Respond(r, 200, "error") /\ UNCHANGED oSources
        ELSE /\ oSources' =
                  [id \in DOMAIN oSources |->
                      IF id = oReq[r].sourceId
                      THEN [oSources[id] EXCEPT
                               !.credentials = EncryptObject(GmailCredentialsOf(
                                   oReq[r].data.refresh_token, oReq[r].userEmail)),
                               !.status = "auth_success"]
                      ELSE oSources[id]]
             /\ oReq' = [oReq EXCEPT ![r].pc = "trigger", ![r].wrote = TRUE]
    /\ UNCHANGED <<outsideOAuth, oConfigured, oImports, oGrant, oStarted>>

\* pollDeviceAuth: IngestionService.triggerInitialImport(sourceId), called
\* with the sourceId of the request whether or not a row was updated, and the
\* success answer when it resolves
PollTrigger(r) ==
    /\ oReq[r].pc = "trigger"
    /\ \E ok \in BOOLEAN :
        IF ok
        THEN /\ oImports' = Append(oImports, oReq[r].sourceId)
             /\ oReq' = [oReq EXCEPT ![r].pc = "responded", ![r].http = 200,
                                     ![r].status = "success", ![r].triggered = TRUE]
        ELSE /\ Respond(r, 200, "error")
             /\ UNCHANGED oImports
    /\ UNCHANGED <<outsideOAuth, oConfigured, oSources, oGrant, oStarted>>

\* no authorization request is being served
OAuthIdle ==
    /\ oConfigured = TRUE
    /\ oSources = InitialSources
    /\ oImports = <<>>
    /\ oGrant = [dc \in Range(DeviceCodes) |-> "none"]
    /\ oStarted = ""
    /\ oReq = [r \in {} |-> NoRequest]

\* the controller before the first request of a device flow
OAuthInit ==
    /\ oConfigured \in BOOLEAN
    /\ oSources = InitialSources
    /\ oImports = <<>>
    /\ oGrant = [dc \in Range(DeviceCodes) |-> "none"]
    /\ oStarted = ""
    /\ oReq = [r \in 1..MaxPolls |-> NoRequest]

\* ----------------------------------------- GmailOAuthController: code flow

\* callback: 'No refresh token received. Please revoke access and try again.'
NoRefreshTokenRevokeMessage ==
    "No refresh token received. Please revoke access and try again."

\* req.query.code: missing, or an authorization code
CodeParams == {"", "code"}

\* req.query.error: missing, or the provider's error
ErrorParams == {"", "access_denied"}

\* what oauth2Client.getToken(code) resolves to: tokens with a refresh token,
\* or tokens without one
TokensOf(code) == {TokenAnswer("", "rt0"), TokenAnswer("", "")}

\* oauth2Client.generateAuthUrl({ ..., state: sourceId }), by its state
AuthUrl(sourceId) == [state |-> sourceId]

NoUrl == AuthUrl("")

\* the answer of authorize to a request for sourceId, with the status of the
\* source it found
AuthorizeAnswer(sourceId, http, authUrl, found) ==
    [sourceId |-> sourceId, http |-> http, authUrl |-> authUrl, found |-> found]

NoAuthorize == AuthorizeAnswer("", 0, NoUrl, "")

\* authorize: the checks of the request, the configuration and the source,
\* and the authorization URL
Authorize ==
    /\ \E sourceId \in SourceIdParams, throws \in BOOLEAN :
        IF sourceId = "" THEN cAuth' = AuthorizeAnswer(sourceId, 400, NoUrl, "")
        ELSE IF ~oConfigured THEN cAuth' = AuthorizeAnswer(sourceId, 500, NoUrl, "")
        ELSE IF ~cRedirectUri THEN cAuth' = AuthorizeAnswer(sourceId, 500, NoUrl, "")
        ELSE IF throws THEN cAuth' = AuthorizeAnswer(sourceId, 500, NoUrl, "")
        ELSE IF sourceId \notin DOMAIN oSources
        THEN cAuth' = AuthorizeAnswer(sourceId, 404, NoUrl, "")
        ELSE IF oSources[sourceId].provider # "gmail"
        THEN cAuth' = AuthorizeAnswer(sourceId, 400, NoUrl, oSources[sourceId].status)
        ELSE cAuth' = AuthorizeAnswer(sourceId, 200, AuthUrl(sourceId),
                                      oSources[sourceId].status)
    /\ UNCHANGED <<outsideCode, oSources, oImports, cRedirectUri, cReq>>

\* a callback request that has not arrived
NoCallback ==
    [pc |-> "idle", code |-> "", sourceId |-> "", error |-> "", tokens |-> NoAnswer,
     userEmail |-> "", redirect |-> "", message |-> "", wrote |-> FALSE,
     triggered |-> FALSE]

\* res.redirect(.../dashboard/ingestions?gmail_auth=error&message=...)
RedirectError(r, req, message) ==
    cReq' = [cReq EXCEPT ![r] = [req EXCEPT !.pc = "responded", !.redirect = "error",
                                            !.message = message]]

\* callback: the checks of the request parameters and the configuration
CallbackReceive(r) ==
    /\ cReq[r].pc = "idle"
    /\ \E error \in ErrorParams, code \in CodeParams, sourceId \in SourceIdParams :
        LET req == [cReq[r] EXCEPT !.error = error, !.code = code,
                                   !.sourceId = sourceId] IN
        IF error # "" THEN RedirectError(r, req, error)
        ELSE IF code = "" THEN RedirectError(r, req, "Missing authorization code")
        ELSE IF sourceId = "" THEN RedirectError(r, req, "Missing source ID")
        ELSE IF ~oConfigured THEN RedirectError(r, req, "Google OAuth not configured")
        ELSE cReq' = [cReq EXCEPT ![r] = [req EXCEPT !.pc = "token"]]
    /\ UNCHANGED <<outsideCode, oSources, oImports, cRedirectUri, cAuth>>

\* callback: oauth2Client.getToken(code) and the check of the refresh token
CallbackToken(r) ==
    /\ cReq[r].pc = "token"
    /\ \/ \* getToken throws: the catch redirects with the error's message
          RedirectError(r, cReq[r], "invalid_grant")
       \/ \E tokens \in TokensOf(cReq[r].code) :
            IF ~HasRefreshToken(tokens)
            THEN RedirectError(r, [cReq[r] EXCEPT !.tokens = tokens],
                               NoRefreshTokenRevokeMessage)
            ELSE cReq' = [cReq EXCEPT ![r].pc = "userinfo", ![r].tokens = tokens]
    /\ UNCHANGED <<outsideCode, oSources, oImports, cRedirectUri, cAuth>>

\* callback: oauth2.userinfo.get() and the check of the email
CallbackUserInfo(r) ==
    /\ cReq[r].pc = "userinfo"
    /\ \E out \in {"email", "noEmail", "throws"} :
        IF out = "noEmail"
        THEN RedirectError(r, cReq[r], "Could not get user email from Google")
        ELSE IF out = "throws"
        THEN RedirectError(r, cReq[r], "Authorization failed")
        ELSE cReq' = [cReq EXCEPT ![r].pc = "update", ![r].userEmail = UserEmail]
    /\ UNCHANGED <<outsideCode, oSources, oImports, cRedirectUri, cAuth>>

\* callback: db.update(ingestionSources).set({ credentials, status })
\* .where(eq(id, sourceId)); no row is updated for an id that is not there
CallbackUpdate(r) ==
    /\ cReq[r].pc = "update"
    /\ \E ok \in BOOLEAN :
        IF ~ok
        THEN RedirectError(r, cReq[r], "Authorization failed") /\ UNCHANGED oSources
        ELSE /\ oSources' =
                  [id \in DOMAIN oSources |->
                      IF id = cReq[r].sourceId
                      THEN [oSources[id] EXCEPT
                               !.credentials = EncryptObject(GmailCredentialsOf(
                                   cReq[r].tokens.refresh_token, cReq[r].userEmail)),
                               !.status = "auth_success"]
                      ELSE oSources[id]]
             /\ cReq' = [cReq EXCEPT ![r].pc = "trigger", ![r].wrote = TRUE]
    /\ UNCHANGED <<outsideCode, oImports, cRedirectUri, cAuth>>

\* callback: IngestionService.triggerInitialImport(sourceId) and the redirect
\* to the success page
CallbackTrigger(r) ==
    /\ cReq[r].pc = "trigger"
    /\ \E ok \in BOOLEAN :
        IF ok
        THEN /\ oImports' = Append(oImports, cReq[r].sourceId)
             /\ cReq' = [cReq EXCEPT ![r].pc = "responded", ![r].redirect = "success",
                                     ![r].triggered = TRUE]
        ELSE /\ RedirectError(r, cReq[r], "Authorization failed")
             /\ UNCHANGED oImports
    /\ UNCHANGED <<outsideCode, oSources, cRedirectUri, cAuth>>

\* no request of the authorization code flow is being served
CodeIdle ==
    /\ cRedirectUri = TRUE
    /\ cAuth = NoAuthorize
    /\ cReq = [r \in {} |-> NoCallback]

\* the controller before the first request of a code flow
CodeInit ==
    /\ cRedirectUri \in BOOLEAN
    /\ cAuth = NoAuthorize
    /\ cReq = [r \in 1..MaxCallbacks |-> NoCallback]

\* ------------------------------------- ingestion page: device flow dialog

\* data.interval of the answer of /auth/gmail/device, in seconds (0: absent)
Intervals == {0, 5, 10}

\* (data.interval || 5) * 1000
PollIntervalMs(interval) == (IF interval = 0 THEN 5 ELSE interval) * 1000

\* clearInterval(handle)
ClearInterval(handle) == {t \in timers : t.handle # handle}

\* startGmailDeviceAuth(sourceId) up to the answer of /auth/gmail/device:
\* the backend has the provider issue a device code while the request is in
\* flight. handleFormSubmit calls it when it resumes after its POST, which can
\* be after onDestroy ran
PageStartDeviceAuth ==
    /\ Unissued # {}
    /\ \/ \* the answer is not ok, or the request throws: an alert is shown
          UNCHANGED <<pageVars, oGrant>>
       \/ LET i == CHOOSE n \in Unissued : \A k \in Unissued : n <= k IN
          /\ oGrant' = [oGrant EXCEPT ![DeviceCodes[i]] = "pending"]
          /\ starts' = Append(starts, [pc |-> "sent", deviceCode |-> DeviceCodes[i],
                                       handle |-> 0])
          /\ UNCHANGED <<gmailAuthData, gmailAuthStatus, isGmailAuthDialogOpen,
                         pollInterval, timers, polls, slowedAt, mounted>>
    /\ UNCHANGED outsidePage

\* the handle setInterval returns: the timers are numbered as they are created
NextHandle == Cardinality({n \in DOMAIN starts : starts[n].handle # 0}) + 1

\* startGmailDeviceAuth(sourceId) after its request: response.json() throws
\* and an alert is shown, or the dialog is opened for the device code of the
\* answer and the poll timer is set
PageStartAnswer(n) ==
    /\ starts[n].pc = "sent"
    /\ \/ /\ starts' = [starts EXCEPT ![n].pc = "handled"]
          /\ UNCHANGED <<gmailAuthData, gmailAuthStatus, isGmailAuthDialogOpen,
                         pollInterval, timers, slowedAt>>
       \/ \E interval \in Intervals :
            /\ gmailAuthData' = starts[n].deviceCode
            /\ gmailAuthStatus' = "pending"
            /\ isGmailAuthDialogOpen' = TRUE
            /\ timers' = timers \cup {[handle |-> NextHandle,
                                        ms |-> PollIntervalMs(interval)]}
            /\ pollInterval' = NextHandle
            /\ slowedAt' = 0
            /\ starts' = [starts EXCEPT ![n].pc = "handled", ![n].handle = NextHandle]
    /\ UNCHANGED <<outsidePage, oGrant, polls, mounted>>

\* a poll timer fires: pollGmailAuth up to its request
PageTick ==
    /\ Len(polls) < MaxTicks
    /\ \E t \in timers :
        IF gmailAuthData = ""
        THEN UNCHANGED polls
        ELSE polls' = Append(polls,
                 [pc |-> "sent", deviceCode |-> gmailAuthData, ms |-> t.ms,
                  slowedAt |-> slowedAt, status |-> ""])
    /\ UNCHANGED <<outsidePage, oGrant, gmailAuthData, gmailAuthStatus,
                   isGmailAuthDialogOpen, pollInterval, timers, slowedAt, starts,
                   mounted>>

\* the status the backend answers a poll with, for the token endpoint's answer
PollStatuses(data) ==
    IF IsAuthorizationPending(data) THEN {"pending"}
    ELSE IF IsSlowDown(data) THEN {"slow_down"}
    ELSE IF data.error # "" \/ ~HasRefreshToken(data) THEN {"error"}
    ELSE {"success", "error"}

\* the backend answers the request of poll p, or the request fails
PageAnswer(p) ==
    /\ polls[p].pc = "sent"
    /\ \/ /\ polls' = [polls EXCEPT ![p].pc = "answered", ![p].status = "throws"]
          /\ UNCHANGED oGrant
       \/ \E data \in TokenAnswers(polls[p].deviceCode, oGrant) :
            /\ oGrant' = IF data.error = ""
                         THEN [oGrant EXCEPT ![polls[p].deviceCode] = "redeemed"]
                         ELSE oGrant
            /\ \E status \in PollStatuses(data) :
                  polls' = [polls EXCEPT ![p].pc = "answered", ![p].status = status]
    /\ UNCHANGED <<outsidePage, gmailAuthData, gmailAuthStatus, isGmailAuthDialogOpen,
                   pollInterval, timers, slowedAt, starts, mounted>>

\* pollGmailAuth after its request: the answer is handled
PageHandle(p) ==
    /\ polls[p].pc = "answered"
    /\ IF polls[p].status = "success"
       THEN /\ gmailAuthStatus' = "success"
            /\ timers' = ClearInterval(pollInterval)
            /\ pollInterval' = 0
            /\ polls' = [polls EXCEPT ![p].pc = "refresh"]
            /\ UNCHANGED slowedAt
       ELSE IF polls[p].status = "error"
       THEN /\ gmailAuthStatus' = "error"
            /\ timers' = ClearInterval(pollInterval)
            /\ pollInterval' = 0
            /\ polls' = [polls EXCEPT ![p].pc = "handled"]
            /\ UNCHANGED slowedAt
       ELSE \* 'pending', 'slow_down' and a failed request: polling goes on
            /\ UNCHANGED <<timers, pollInterval>>
            /\ polls' = [polls EXCEPT ![p].pc = "handled"]
            /\ slowedAt' = IF polls[p].status = "slow_down" /\ polls[p].deviceCode = gmailAuthData
                           THEN polls[p].ms
                           ELSE slowedAt
            /\ UNCHANGED gmailAuthStatus
    /\ UNCHANGED <<outsidePage, oGrant, gmailAuthData, isGmailAuthDialogOpen, starts,
                   mounted>>

\* pollGmailAuth after a success: the list of ingestion sources is fetched
PageRefresh(p) ==
    /\ polls[p].pc = "refresh"
    /\ polls' = [polls EXCEPT ![p].pc = "handled"]
    /\ UNCHANGED <<outsidePage, oGrant, gmailAuthData, gmailAuthStatus,
                   isGmailAuthDialogOpen, pollInterval, timers, slowedAt, starts,
                   mounted>>

\* closeGmailAuthDialog
CloseGmailAuthDialog ==
    /\ mounted
    /\ isGmailAuthDialogOpen
    /\ timers' = ClearInterval(pollInterval)
    /\ pollInterval' = 0
    /\ isGmailAuthDialogOpen' = FALSE
    /\ gmailAuthData' = ""
    /\ UNCHANGED <<outsidePage, oGrant, gmailAuthStatus, polls, slowedAt, starts,
                   mounted>>

\* onDestroy: the timer of pollInterval is cleared; the handle, the device
\* code and the dialog stay as they are
PageDestroy ==
    /\ mounted
    /\ mounted' = FALSE
    /\ timers' = ClearInterval(pollInterval)
    /\ UNCHANGED <<outsidePage, oGrant, gmailAuthData, gmailAuthStatus,
                   isGmailAuthDialogOpen, pollInterval, polls, slowedAt, starts>>

\* the ingestion page after it was mounted
PageIdle ==
    /\ gmailAuthData = ""
    /\ gmailAuthStatus = "pending"
    /\ isGmailAuthDialogOpen = FALSE
    /\ pollInterval = 0
    /\ timers = {}
    /\ polls = <<>>
    /\ slowedAt = 0
    /\ starts = <<>>
    /\ mounted = TRUE

\* ------------------------------------------- normalisation of a message

\* the mailboxes of the account, and an id that is no mailbox of the cache
MailboxIds == {"m1", "m2", "m3"}

UnknownMailboxId == "m9"

\* JMAPMailbox.name
MailboxName(id) ==
    CASE id = "m1" -> "Inbox"
      [] id = "m2" -> "Work"
      [] OTHER -> "Q3"

\* JMAPMailbox.parentId: null (""), a mailbox, or an id that is not cached
ParentIds == {""} \cup MailboxIds \cup {UnknownMailboxId}

\* the mailbox caches fetchMailboxes can leave behind
MailboxCaches ==
    {[id \in MailboxIds |-> [name |-> MailboxName(id), parentId |-> parent[id]]] :
        parent \in [MailboxIds -> ParentIds]}

\* Object.keys(email.mailboxIds || {}): one or two ids
MailboxIdLists ==
    LET ids == MailboxIds \cup {UnknownMailboxId} IN
    {<<a>> : a \in ids} \cup {<<ab[1], ab[2]>> : ab \in {x \in ids \X ids : x[1] # x[2]}}

\* the threading headers of a parsed message
HeaderSets ==
    [references : {<<>>, <<"r1", "r2">>}, inReplyTo : {"", "r2"}]

\* getThreadId(parsedEmail.headers): the root of the References chain, else
\* In-Reply-To, else nothing
GetThreadId(headers) ==
    IF headers.references # <<>> THEN headers.references[1]
    ELSE headers.inReplyTo

\* the labels of the Gmail account: a system label, two user labels and a
\* label without a name
GmailLabels ==
    [INBOX |-> [name |-> "INBOX", type |-> "system"],
     Label_1 |-> [name |-> "Work", type |-> "user"],
     Label_2 |-> [name |-> "Q3", type |-> "user"],
     Label_3 |-> [name |-> "", type |-> "user"]]

\* metadataResponse.data.labelIds || []: no, one or two label ids
LabelIdLists ==
    LET ids == DOMAIN GmailLabels IN
    {<<>>} \cup {<<a>> : a \in ids}
        \cup {<<ab[1], ab[2]>> : ab \in {x \in ids \X ids : x[1] # x[2]}}

\* getLabelDetails(gmail, labelIds): every label name is a tag, and the names
\* of the user labels joined with '/' are the path
RECURSIVE GetLabelDetails(_)
GetLabelDetails(labelIds) ==
    IF labelIds = <<>> THEN [path |-> <<>>, tags |-> <<>>]
    ELSE LET n == Len(labelIds)
             before == GetLabelDetails(SubSeq(labelIds, 1, n - 1))
             label == GmailLabels[labelIds[n]]
         IN IF label.name = "" THEN before
            ELSE [path |-> IF label.type = "user"
                           THEN Append(before.path, label.name)
                           ELSE before.path,
                  tags |-> Append(before.tags, <<label.name>>)]

\* the messages of the provider: a JMAP message carries mailbox ids, a Gmail
\* message label ids
ProviderEmails(c) ==
    [threadId : {"", "T1"},
     mailboxIds : IF c = "jmap" THEN MailboxIdLists ELSE {<<>>},
     labelIds : IF c = "jmap" THEN {<<>>} ELSE LabelIdLists,
     headers : HeaderSets]

NoObject == [threadId |-> "", path |-> <<>>, tags |-> <<>>]

\* a slip: the name is put behind the names collected so far
PushLast(names, name) == Append(names, name)

\* parts.unshift(name)
Unshift(names, name) == <<name>> \o names

\* parts.join('/'), as the sequence of the names joined
Join(names) == names

\* getMailboxPath returns path for mailboxIds[nIdx]: the next id is mapped, or
\* the map is through
PathReturned(path) ==
    /\ resolved' = Append(resolved, [id |-> nEmail.mailboxIds[nIdx], path |-> path])
    /\ nIdx' = nIdx + 1
    /\ nPc' = IF nIdx < Len(nEmail.mailboxIds) THEN "lookup" ELSE "object"

\* fetchAndParseEmail / fetchSingleMessage up to the paths of the mailboxes
NormStart ==
    /\ nPc = "start"
    /\ nPc' = IF nEmail.mailboxIds = <<>> THEN "object" ELSE "lookup"
    /\ UNCHANGED <<outsideNorm, nConnector, mailboxCache, nEmail, nIdx, parts, current,
                   resolved, nObject>>

\* getMailboxPath(mailboxId) up to its loop
GetMailboxPathEnter ==
    /\ nPc = "lookup"
    /\ LET mailboxId == nEmail.mailboxIds[nIdx] IN
       IF mailboxId \notin DOMAIN mailboxCache
       THEN PathReturned(<<>>) /\ UNCHANGED <<parts, current>>
       ELSE /\ parts' = <<mailboxCache[mailboxId].name>>
            /\ current' = mailboxId
            /\ nPc' = "walk"
            /\ UNCHANGED <<resolved, nIdx>>
    /\ UNCHANGED <<outsideNorm, nConnector, mailboxCache, nEmail, nObject>>

\* getMailboxPath: one test of while (current.parentId) with its body, or the
\* return of the joined parts
GetMailboxPathStep ==
    /\ nPc = "walk"
    /\ LET parentId == mailboxCache[current].parentId IN
       IF parentId = "" \/ parentId \notin DOMAIN mailboxCache
       THEN PathReturned(Join(parts)) /\ UNCHANGED <<parts, current>>
       ELSE /\ Len(parts) < MaxParts
            /\ parts' = Unshift(parts, mailboxCache[parentId].name)
            /\ current' = parentId
            /\ UNCHANGED <<resolved, nIdx, nPc>>
    /\ UNCHANGED <<outsideNorm, nConnector, mailboxCache, nEmail, nObject>>

\* JMAPConnector.fetchAndParseEmail: threadId: threadId || email.threadId
JmapThreadId(email) ==
    IF GetThreadId(email.headers) # "" THEN GetThreadId(email.headers)
    ELSE email.threadId

\* GmailConnector.fetchSingleMessage: threadId
GmailThreadId(email) == GetThreadId(email.headers)

\* the EmailObject is built. JMAP: paths without the empty ones, path =
\* paths[0] || '', tags = paths, and the thread id. Gmail: path and tags of
\* the labels of the message, and the thread id of the headers
BuildEmailObject ==
    /\ nPc = "object"
    /\ LET paths == SelectSeq([i \in DOMAIN resolved |-> resolved[i].path],
                              LAMBDA q : q # <<>>)
           labels == GetLabelDetails(nEmail.labelIds) IN
       nObject' = IF nConnector = "jmap"
                  THEN [threadId |-> JmapThreadId(nEmail),
                        path |-> IF paths = <<>> THEN <<>> ELSE paths[1],
                        tags |-> paths]
                  ELSE [threadId |-> GmailThreadId(nEmail),
                        path |-> labels.path,
                        tags |-> labels.tags]
    /\ nPc' = "done"
    /\ UNCHANGED <<outsideNorm, nConnector, mailboxCache, nEmail, nIdx, parts, current,
                   resolved>>

\* no message is being normalised
NormIdle ==
    /\ nConnector = "gmail"
    /\ mailboxCache = [id \in {} |-> 0]
    /\ nEmail = [threadId |-> "", mailboxIds |-> <<>>, labelIds |-> <<>>, headers |-> <<>>]
    /\ nPc = "done"
    /\ nIdx = 1
    /\ parts = <<>>
    /\ current = ""
    /\ resolved = <<>>
    /\ nObject = NoObject

\* a connector with its mailbox cache and a message to normalise
NormInit ==
    /\ nConnector \in Connectors
    /\ IF nConnector = "jmap"
       THEN mailboxCache \in MailboxCaches
       ELSE mailboxCache = [id \in {} |-> 0]
    /\ nEmail \in ProviderEmails(nConnector)
    /\ nPc = "start"
    /\ nIdx = 1
    /\ parts = <<>>
    /\ current = ""
    /\ resolved = <<>>
    /\ nObject = NoObject

\* --------------------------------- JMAPConnector: Trash and Junk excluded

\* the mailbox cache of the account: id -> role
MailboxRoles == [b1 |-> "inbox", b2 |-> "trash", b3 |-> "junk", b4 |-> ""]

\* the mailboxIds a message can have
MailboxIdSets == SUBSET (DOMAIN MailboxRoles) \ {{}}

\* getExcludedMailboxIds
GetExcludedMailboxIds ==
    {id \in DOMAIN MailboxRoles : MailboxRoles[id] = "trash" \/ MailboxRoles[id] = "junk"}

\* the Email/query condition inMailboxOtherThan: the message is in at least
\* one mailbox that is not in the list
InMailboxOtherThan(m, ids) == aEmails[m] \ ids # {}

\* fetchEmailChanges: idsToFetch = [...(created || []), ...(updated || [])]
IdsToFetch == aCreated \o aUpdated

\* fetchAllEmails: the ids the Email/query of the account matches, newest first
QueryMatches ==
    Desc(IF allInclusiveArchive THEN DOMAIN aEmails
         ELSE {m \in DOMAIN aEmails : InMailboxOtherThan(m, GetExcludedMailboxIds)})

\* Email/get: the ids the provider no longer finds (its notFound list) are
\* any of the ids asked for, as far as removals go
ArchiveNotFound(ids) ==
    {S \in SUBSET (Range(ids) \cap DOMAIN aEmails) :
        MaxMsgs - Cardinality(DOMAIN aEmails) + Cardinality(S) <= MaxRemovals}

\* emailsResult.list of the Email/get for ids when the messages of S are gone
ArchiveList(ids, S) == SelectSeq(ids, LAMBDA m : m \in DOMAIN aEmails \ S)

\* fetchEmails: getAccountId, which fetches the session: the request fails,
\* or the session has no account for mail
ArchiveFetchEmails ==
    /\ aPc = "start"
    /\ \E out \in {"ok", "fail", "noMailAccount"} :
        aPc' = IF out = "ok" THEN "mailboxes" ELSE "raised"
    /\ UNCHANGED <<outsideArchive, allInclusiveArchive, aEmails, aExisting, aCreated,
                   aUpdated, aPosition, aI, aIds, aBatch, aK, aYielded>>

\* fetchEmails: fetchMailboxes, one Mailbox/get request, and the choice of
\* the strategy; the request fails, or its answer is a method-level error and
\* the loop over its list throws a TypeError
ArchiveFetchMailboxes ==
    /\ aPc = "mailboxes"
    /\ \E out \in {"ok", "error", "fail"} :
        aPc' = IF out # "ok" THEN "raised"
               ELSE IF aExisting THEN "changes" ELSE "query"
    /\ UNCHANGED <<outsideArchive, allInclusiveArchive, aEmails, aExisting, aCreated,
                   aUpdated, aPosition, aI, aIds, aBatch, aK, aYielded>>

\* the loop over emails was entered or goes on to its next message, up to the
\* await of its download; after the last message the round ends: position +=
\* emails.length and hasMore = queryResult.ids.length === BATCH_SIZE of
\* fetchAllEmails, i += BATCH_SIZE of fetchEmailChanges
ArchiveLoop(emails, ids, k, full) ==
    IF k <= Len(emails)
    THEN /\ aBatch' = emails
         /\ aIds' = ids
         /\ aK' = k
         /\ aPc' = IF full THEN "q_download" ELSE "c_download"
         /\ UNCHANGED <<aPosition, aI>>
    ELSE /\ aBatch' = <<>>
         /\ aIds' = 0
         /\ aK' = 0
         /\ IF full
            THEN /\ aPosition' = aPosition + Len(emails)
                 /\ aPc' = IF ids = BATCH_SIZE THEN "query" ELSE "done"
                 /\ UNCHANGED aI
            ELSE /\ aI' = aI + BATCH_SIZE
                 /\ aPc' = IF aI + BATCH_SIZE < Len(IdsToFetch) THEN "get" ELSE "done"
                 /\ UNCHANGED aPosition

\* fetchAllEmails: the answer of Email/query + Email/get of one round of
\* while (hasMore): the ids of the query and the list of those Email/get still
\* finds; the error withRetry throws, or the TypeError of the loop over the
\* list of an answer that is a method-level error
ArchiveQueryBatch ==
    /\ aPc = "query"
    /\ \E out \in {"ok", "error", "fail"} :
        IF out = "ok"
        THEN LET ids == Take(Drop(QueryMatches, aPosition), BATCH_SIZE) IN
             \E S \in ArchiveNotFound(ids) :
                /\ aEmails' = [m \in DOMAIN aEmails \ S |-> aEmails[m]]
                /\ ArchiveLoop(ArchiveList(ids, S), Len(ids), 1, TRUE)
        ELSE aPc' = "raised" /\ UNCHANGED <<aEmails, aPosition, aI, aIds, aBatch, aK>>
    /\ UNCHANGED <<outsideArchive, allInclusiveArchive, aExisting, aCreated,
                   aUpdated, aYielded>>

\* fetchEmailChanges: the answer of Email/changes: idsToFetch, the full
\* re-sync for a method-level error, or the error thrown on; the error
\* withRetry throws is thrown on by the catch
ArchiveChanges ==
    /\ aPc = "changes"
    /\ \E out \in MethodErrors("Email/changes") \cup {"fail"} :
        /\ aPc' = IF out = "" THEN (IF IdsToFetch = <<>> THEN "done" ELSE "get")
                  ELSE IF out = "fail"
                  THEN (IF CatchFallsBack(TransportMessage) THEN "query" ELSE "raised")
                  ELSE IF FullResync(out) THEN "query"
                  ELSE "raised"
    /\ UNCHANGED <<outsideArchive, allInclusiveArchive, aEmails, aExisting, aCreated,
                   aUpdated, aPosition, aI, aIds, aBatch, aK, aYielded>>

\* fetchEmailChanges: the answer of the Email/get of one batch of idsToFetch:
\* the list of the ids it still finds; the error withRetry throws, or the
\* TypeError of the loop over the list of an answer that is a method-level
\* error, which the catch throws on
ArchiveChangesBatch ==
    /\ aPc = "get"
    /\ \E out \in {"ok", "error", "fail"} :
        IF out = "ok"
        THEN LET ids == Take(Drop(IdsToFetch, aI), BATCH_SIZE) IN
             \E S \in ArchiveNotFound(ids) :
                /\ aEmails' = [m \in DOMAIN aEmails \ S |-> aEmails[m]]
                /\ ArchiveLoop(ArchiveList(ids, S), Len(ids), 1, FALSE)
        ELSE aPc' = "raised" /\ UNCHANGED <<aEmails, aPosition, aI, aIds, aBatch, aK>>
    /\ UNCHANGED <<outsideArchive, allInclusiveArchive, aExisting, aCreated,
                   aUpdated, aYielded>>

\* the loop over emails: fetchAndParseEmail of one message returns and the
\* message is yielded, or it throws, which the catch logs
ArchiveFetchAndParse ==
    /\ aPc \in {"q_download", "c_download"}
    /\ \E ok \in BOOLEAN :
        IF ok
        THEN /\ aYielded' = Append(aYielded, aBatch[aK])
             /\ aPc' = IF aPc = "q_download" THEN "q_yield" ELSE "c_yield"
             /\ UNCHANGED <<aPosition, aI, aIds, aBatch, aK>>
        ELSE /\ ArchiveLoop(aBatch, aIds, aK + 1, aPc = "q_download")
             /\ UNCHANGED aYielded
    /\ UNCHANGED <<outsideArchive, allInclusiveArchive, aEmails, aExisting, aCreated,
                   aUpdated>>

\* the consumer pulls the next message: the generator goes on after its yield
ArchivePull ==
    /\ aPc \in {"q_yield", "c_yield"}
    /\ ArchiveLoop(aBatch, aIds, aK + 1, aPc = "q_yield")
    /\ UNCHANGED <<outsideArchive, allInclusiveArchive, aEmails, aExisting, aCreated,
                   aUpdated, aYielded>>

\* the consumer stops at a yield and returns the generator
ArchiveStop ==
    /\ aPc \in {"q_yield", "c_yield"}
    /\ aPc' = "stopped"
    /\ UNCHANGED <<outsideArchive, allInclusiveArchive, aEmails, aExisting, aCreated,
                   aUpdated, aPosition, aI, aIds, aBatch, aK, aYielded>>

\* the lists of ids an Email/changes answer can hold: messages of the account,
\* each at most once
IdLists ==
    {l \in UNION {[1..n -> 1..MaxMsgs] : n \in 0..MaxMsgs} :
        \A a, b \in DOMAIN l : a # b => l[a] # l[b]}

\* no mailbox is being imported
ArchiveIdle ==
    /\ allInclusiveArchive = FALSE
    /\ aEmails = <<>>
    /\ aExisting = FALSE
    /\ aCreated = <<>>
    /\ aUpdated = <<>>
    /\ aPc = "done"
    /\ aPosition = 0
    /\ aI = 0
    /\ aIds = 0
    /\ aBatch = <<>>
    /\ aK = 0
    /\ aYielded = <<>>

\* an account with its messages, with or without a stored emailState
ArchiveInit ==
    /\ allInclusiveArchive \in BOOLEAN
    /\ aEmails \in [1..MaxMsgs -> MailboxIdSets]
    /\ aExisting \in BOOLEAN
    /\ aCreated \in IF aExisting THEN IdLists ELSE {<<>>}
    /\ aUpdated \in IF aExisting
                     THEN {u \in IdLists : Range(u) \cap Range(aCreated) = {}}
                     ELSE {<<>>}
    /\ aPc = "start"
    /\ aPosition = 0
    /\ aI = 0
    /\ aIds = 0
    /\ aBatch = <<>>
    /\ aK = 0
    /\ aYielded = <<>>

\* ------------------------------------------------------------ SearchService

\* the keys of dto.filters, as the parts endsWith and replace tell apart
FromKey == <<"from">>
GteKey == <<"timestamp", "_gte">>
LteKey == <<"timestamp", "_lte">>

\* a value of dto.filters: a string, as the words and quotes it is made of
\* (a last word "" stands for a blank at its end), the array of strings of a
\* query parameter sent more than once, or a number
StringValue(words) == [typeof |-> "string", items |-> <<words>>]
ArrayValue(items) == [typeof |-> "object", items |-> items]
NumberValue(word) == [typeof |-> "number", items |-> <<<<word>>>>]

\* the values of the filters
FromValues ==
    {StringValue(<<"x">>), StringValue(<<"y">>), StringValue(<<"o", "'", "k">>),
     StringValue(<<"x", "'", "OR", "from", "!=", "'", "x">>),
     ArrayValue(<<(<<"x">>), (<<"y">>)>>),
     ArrayValue(<<(<<"x", "OR", "from", "!=", "x", "OR", "from", "=", "">>), (<<"x">>)>>)}
GteValues ==
    {StringValue(<<"1">>), StringValue(<<"2">>), NumberValue("2"),
     StringValue(<<"0", "OR", "timestamp", ">=", "0">>)}
LteValues == {StringValue(<<"1">>), StringValue(<<"0", "OR", "timestamp", ">=", "0">>)}

\* the entries a key contributes to Object.entries(filters): none or one
EntriesOf(key, values) == {<<>>} \cup {<<[key |-> key, value |-> v]>> : v \in values}

\* dto.filters
RequestFilters ==
    {a \o b \o c : a \in EntriesOf(FromKey, FromValues),
                   b \in EntriesOf(GteKey, GteValues),
                   c \in EntriesOf(LteKey, LteValues)}

\* the access-control filter FilterBuilder.create returns for a user: none,
\* or the ingestion source the user may read
SearchFilters ==
    {<<>>} \cup {<<"ingestionSourceId", "=", "'", s, "'">> : s \in {"s1", "s2"}}

\* the documents of the index
Documents ==
    [from : {"x", "y"}, timestamp : {0, 2}, ingestionSourceId : {"s1", "s2"}]

\* key.endsWith(suffix)
EndsWith(key, suffix) == key[Len(key)] = suffix

\* key.replace(suffix, ''): the key without the first occurrence of suffix
Without(key, suffix) ==
    LET i == CHOOSE k \in DOMAIN key :
                 key[k] = suffix /\ \A n \in 1..(k - 1) : key[n] # suffix
    IN SubSeq(key, 1, i - 1) \o SubSeq(key, i + 1, Len(key))

\* first + ',' + second: the comma joins the last word of the first and the
\* first word of the second
Comma(first, second) ==
    LET last == IF first = <<>> THEN "" ELSE first[Len(first)]
        head == IF second = <<>> THEN "" ELSE second[1]
    IN (IF first = <<>> THEN <<>> ELSE SubSeq(first, 1, Len(first) - 1))
           \o <<last \o "," \o head>>
           \o (IF second = <<>> THEN <<>> ELSE Tail(second))

RECURSIVE Stringify(_)
\* `${value}`: the string itself, the number in digits, the elements of an
\* array joined with ','
Stringify(items) ==
    IF items = <<>> THEN <<>>
    ELSE IF Len(items) = 1 THEN items[1]
    ELSE Comma(items[1], Stringify(Tail(items)))

\* searchEmails: the filter string of one entry of dto.filters; only a value
\* with typeof value === 'string' is put in quotes
FilterString(entry) ==
    IF EndsWith(entry.key, "_gte")
    THEN Without(entry.key, "_gte") \o <<">=">> \o Stringify(entry.value.items)
    ELSE IF EndsWith(entry.key, "_lte")
    THEN Without(entry.key, "_lte") \o <<"<=">> \o Stringify(entry.value.items)
    ELSE IF entry.value.typeof = "string"
    THEN entry.key \o <<"=", "'">> \o Stringify(entry.value.items) \o <<"'">>
    ELSE entry.key \o <<"=">> \o Stringify(entry.value.items)

RECURSIVE JoinWith(_, _)
\* strings.join(' sep ')
JoinWith(strings, sep) ==
    IF strings = <<>> THEN <<>>
    ELSE IF Len(strings) = 1 THEN strings[1]
    ELSE strings[1] \o <<sep>> \o JoinWith(Tail(strings), sep)

RECURSIVE SplitOn(_, _, _, _, _)
\* the index's filter parser: the parts of words[i..] between the operators
\* sep that are outside quotes
SplitOn(words, i, sep, quoted, part) ==
    IF i > Len(words) THEN <<part>>
    ELSE IF words[i] = "'"
    THEN SplitOn(words, i + 1, sep, ~quoted, Append(part, "'"))
    ELSE IF words[i] = sep /\ ~quoted
    THEN <<part>> \o SplitOn(words, i + 1, sep, FALSE, <<>>)
    ELSE SplitOn(words, i + 1, sep, quoted, Append(part, words[i]))

Numerals == <<"0", "1", "2">>

IsNumber(word) == \E i \in DOMAIN Numerals : Numerals[i] = word

NumberOf(word) == (CHOOSE i \in DOMAIN Numerals : Numerals[i] = word) - 1

\* the index's filter parser: the condition is field, operator and a value
\* that is one word or a quoted string
WellFormed(cond) ==
    /\ Len(cond) >= 3
    /\ cond[1] \in {"from", "timestamp", "ingestionSourceId"}
    /\ cond[2] \in {"=", "!=", ">=", "<="}
    /\ IF cond[3] = "'"
       THEN /\ Len(cond) >= 4
            /\ cond[Len(cond)] = "'"
            /\ \A i \in 4..(Len(cond) - 1) : cond[i] # "'"
       ELSE Len(cond) = 3

\* the value of a well-formed condition
ValueOf(cond) ==
    IF cond[3] = "'" THEN SubSeq(cond, 4, Len(cond) - 1) ELSE <<cond[3]>>

\* the index evaluates one condition for a document
Holds(cond, doc) ==
    LET value == ValueOf(cond) IN
    IF cond[1] = "timestamp"
    THEN IF Len(value) = 1 /\ IsNumber(value[1])
         THEN CASE cond[2] = "=" -> doc.timestamp = NumberOf(value[1])
                [] cond[2] = "!=" -> doc.timestamp # NumberOf(value[1])
                [] cond[2] = ">=" -> doc.timestamp >= NumberOf(value[1])
                [] OTHER -> doc.timestamp <= NumberOf(value[1])
         ELSE cond[2] = "!="
    ELSE CASE cond[2] = "=" -> <<doc[cond[1]]>> = value
           [] cond[2] = "!=" -> <<doc[cond[1]]>> # value
           [] OTHER -> FALSE

\* the conjunctions of a filter: AND binds tighter than OR
Conjunctions(filter) ==
    LET ors == SplitOn(filter, 1, "OR", FALSE, <<>>)
    IN [i \in DOMAIN ors |-> SplitOn(ors[i], 1, "AND", FALSE, <<>>)]

\* the index accepts the filter
Parses(filter) ==
    \A i \in DOMAIN Conjunctions(filter) :
        \A k \in DOMAIN Conjunctions(filter)[i] : WellFormed(Conjunctions(filter)[i][k])

\* the index matches a document with a filter it accepts
Matches(filter, doc) ==
    \E i \in DOMAIN Conjunctions(filter) :
        \A k \in DOMAIN Conjunctions(filter)[i] : Holds(Conjunctions(filter)[i][k], doc)

\* searchEmails: if (filters) searchParams.filter = filterStrings.join(' AND ')
SearchFilterStrings ==
    /\ sPc = "start"
    /\ sFilter' = IF sFilters # <<>>
                  THEN JoinWith([i \in DOMAIN sFilters |-> FilterString(sFilters[i])], "AND")
                  ELSE <<>>
    /\ sPc' = "access"
    /\ UNCHANGED <<outsideSearch, sFilters, sSearchFilter, sHits>>

\* searchEmails: FilterBuilder.create(userId, 'archive', 'read') and the
\* access-control filter appended
SearchAccessFilter ==
    /\ sPc = "access"
    /\ sFilter' = IF sSearchFilter # <<>>
                  THEN IF sFilter # <<>>
                       THEN sFilter \o <<"AND">> \o sSearchFilter
                       ELSE sSearchFilter
                  ELSE sFilter
    /\ sPc' = "search"
    /\ UNCHANGED <<outsideSearch, sFilters, sSearchFilter, sHits>>

\* searchEmails: index.search(query, searchParams); a filter the index does
\* not accept makes the call throw
IndexSearch ==
    /\ sPc = "search"
    /\ IF sFilter = <<>>
       THEN sHits' = Documents /\ sPc' = "done"
       ELSE IF ~Parses(sFilter)
       THEN sHits' = {} /\ sPc' = "threw"
       ELSE sHits' = {d \in Documents : Matches(sFilter, d)} /\ sPc' = "done"
    /\ UNCHANGED <<outsideSearch, sFilters, sSearchFilter, sFilter>>

\* no search is being served
SearchIdle ==
    /\ sFilters = <<>>
    /\ sSearchFilter = <<>>
    /\ sPc = "done"
    /\ sFilter = <<>>
    /\ sHits = {}

\* a search request of a user
SearchInit ==
    /\ sFilters \in RequestFilters
    /\ sSearchFilter \in SearchFilters
    /\ sPc = "start"
    /\ sFilter = <<>>
    /\ sHits = {}

OthersIdle ==
    RetryIdle /\ OAuthIdle /\ CodeIdle /\ PageIdle /\ NormIdle /\ ArchiveIdle /\ SearchIdle

\* ------------------------------------------------------------------- Init

\* the SyncStates a first cycle of connector c is started with, for a provider
\* at token t: no state, an entry of the other provider family only, an entry
\* of another account only, and an entry of the account with a token up to t
PriorStates(c, t) ==
    IF c = "gmail"
    THEN {EmptyState, JmapState(SessionAccountId, t), GmailState(OtherEmail, t)}
         \cup {GmailState(UserEmail, h) : h \in 1..t}
    ELSE {EmptyState, GmailState(UserEmail, t), JmapState(OtherAccountId, t)}
         \cup {JmapState(SessionAccountId, h) : h \in 1..t}

Init ==
    /\ connector \in Connectors
    /\ \E n \in 0..MaxMsgs :
        /\ live = 1..n
        /\ changeLog = [i \in 1..n |-> [op |-> "add", id |-> i]]
        /\ logFloor \in {1, n + 1}
        /\ priorState \in PriorStates(connector, n + 1)
    /\ cycle = 1
    /\ pc = "start"
    /\ mode = "none"
    /\ newHistoryId = NoToken
    /\ newEmailState = NoToken
    /\ accountId = ""
    /\ loc = NoLocals
    /\ yielded = <<>>
    /\ skipped = {}
    /\ suspended = FALSE
    /\ sentToken = NoToken
    /\ rejected = FALSE
    /\ raisedBy = ""
    /\ faults = 0
    /\ churn = {}
    /\ listed = <<>>
    /\ prev = NoCycle
    /\ OthersIdle

Next ==
    \/ Arrive
    \/ Remove
    \/ GmailFetchEmails
    \/ GmailListMessages
    \/ GmailFetchListed
    \/ GmailNextMessagesPage
    \/ GmailGetProfile
    \/ GmailListHistory
    \/ GmailFetchAdded
    \/ GmailNextHistoryPage
    \/ JmapTestConnection
    \/ JmapFetchEmails
    \/ JmapFetchMailboxes
    \/ JmapQuery
    \/ JmapFetchListed
    \/ JmapEndOfBatch
    \/ JmapChanges
    \/ JmapGetBatch
    \/ JmapFetchChanged
    \/ JmapNextBatch
    \/ Abort
    \/ NextCycle

Spec == Init /\ [][Next]_vars

\* no cycle of the synchronisation model runs
CycleIdle ==
    /\ connector = "gmail"
    /\ live = {}
    /\ changeLog = <<>>
    /\ logFloor = 1
    /\ priorState = EmptyState
    /\ cycle = 1
    /\ pc = "done"
    /\ mode = "none"
    /\ newHistoryId = NoToken
    /\ newEmailState = NoToken
    /\ accountId = ""
    /\ loc = NoLocals
    /\ yielded = <<>>
    /\ skipped = {}
    /\ suspended = FALSE
    /\ sentToken = NoToken
    /\ rejected = FALSE
    /\ raisedBy = ""
    /\ faults = 0
    /\ churn = {}
    /\ listed = <<>>
    /\ prev = NoCycle

InitRetry ==
    CycleIdle /\ RetryInit /\ OAuthIdle /\ CodeIdle /\ PageIdle /\ NormIdle
        /\ ArchiveIdle /\ SearchIdle

NextRetry ==
    \/ CallStart
    \/ WithRetryAttempt
    \/ WithRetryBackoff
    \/ DirectCall
    \/ CallerResume
    \/ CycleEnd

\* the provider calls of one cycle, attempt by attempt
SpecRetry == InitRetry /\ [][NextRetry]_vars

InitOAuth ==
    CycleIdle /\ RetryIdle /\ OAuthInit /\ CodeIdle /\ PageIdle /\ NormIdle
        /\ ArchiveIdle /\ SearchIdle

NextOAuth ==
    \/ StartDeviceAuth
    \/ UserDecides
    \/ \E r \in 1..MaxPolls :
        \/ PollReceive(r)
        \/ PollToken(r)
        \/ PollUserInfo(r)
        \/ PollUpdate(r)
        \/ PollTrigger(r)

\* the device authorization flows with their polls
SpecOAuth == InitOAuth /\ [][NextOAuth]_vars

InitCode ==
    CycleIdle /\ RetryIdle /\ OAuthIdle /\ CodeInit /\ PageIdle /\ NormIdle
        /\ ArchiveIdle /\ SearchIdle

NextCode ==
    \/ Authorize
    \/ \E r \in DOMAIN cReq :
        \/ CallbackReceive(r)
        \/ CallbackToken(r)
        \/ CallbackUserInfo(r)
        \/ CallbackUpdate(r)
        \/ CallbackTrigger(r)

\* the authorization code flow: authorize and the callbacks
SpecCode == InitCode /\ [][NextCode]_vars

\* the controller before the first request of either flow; each of the
\* requests it will serve is a poll of the device flow or a callback
InitFlows ==
    /\ CycleIdle
    /\ RetryIdle
    /\ oConfigured \in BOOLEAN
    /\ oSources = InitialSources
    /\ oImports = <<>>
    /\ oGrant = [dc \in Range(DeviceCodes) |-> "none"]
    /\ oStarted = ""
    /\ oReq = [r \in 1..MaxRequests |-> NoRequest]
    /\ cRedirectUri = TRUE
    /\ cAuth = NoAuthorize
    /\ cReq = [r \in 1..MaxRequests |-> NoCallback]
    /\ PageIdle
    /\ NormIdle
    /\ ArchiveIdle
    /\ SearchIdle

NextFlows ==
    \/ StartDeviceAuth
    \/ UserDecides
    \/ \E r \in 1..MaxRequests :
        \/ cReq[r].pc = "idle" /\ PollReceive(r)
        \/ PollToken(r)
        \/ PollUserInfo(r)
        \/ PollUpdate(r)
        \/ PollTrigger(r)
        \/ oReq[r].pc = "idle" /\ CallbackReceive(r)
        \/ CallbackToken(r)
        \/ CallbackUserInfo(r)
        \/ CallbackUpdate(r)
        \/ CallbackTrigger(r)

\* the two authorization flows of the controller side by side
SpecFlows == InitFlows /\ [][NextFlows]_vars

InitPage ==
    CycleIdle /\ RetryIdle /\ OAuthIdle /\ CodeIdle /\ PageIdle /\ NormIdle
        /\ ArchiveIdle /\ SearchIdle

NextPage ==
    \/ PageStartDeviceAuth
    \/ UserDecides
    \/ PageTick
    \/ CloseGmailAuthDialog
    \/ PageDestroy
    \/ \E n \in DOMAIN starts : PageStartAnswer(n)
    \/ \E p \in DOMAIN polls :
        \/ PageAnswer(p)
        \/ PageHandle(p)
        \/ PageRefresh(p)

\* the device authorization dialog of the ingestion page and its poll timer
SpecPage == InitPage /\ [][NextPage]_vars

InitNorm ==
    CycleIdle /\ RetryIdle /\ OAuthIdle /\ CodeIdle /\ PageIdle /\ NormInit
        /\ ArchiveIdle /\ SearchIdle

NextNorm ==
    \/ NormStart
    \/ GetMailboxPathEnter
    \/ GetMailboxPathStep
    \/ BuildEmailObject

\* the normalisation of one message by either connector
SpecNorm == InitNorm /\ [][NextNorm]_vars

InitArchive ==
    CycleIdle /\ RetryIdle /\ OAuthIdle /\ CodeIdle /\ PageIdle /\ NormIdle
        /\ ArchiveInit /\ SearchIdle

NextArchive ==
    \/ ArchiveFetchEmails
    \/ ArchiveFetchMailboxes
    \/ ArchiveQueryBatch
    \/ ArchiveChanges
    \/ ArchiveChangesBatch
    \/ ArchiveFetchAndParse
    \/ ArchivePull
    \/ ArchiveStop

\* the JMAP import of a mailbox with Trash and Junk, full and incremental
SpecArchive == InitArchive /\ [][NextArchive]_vars

InitSearch ==
    CycleIdle /\ RetryIdle /\ OAuthIdle /\ CodeIdle /\ PageIdle /\ NormIdle
        /\ ArchiveIdle /\ SearchInit

NextSearch ==
    \/ SearchFilterStrings
    \/ SearchAccessFilter
    \/ IndexSearch

\* one search request with its filters and the access-control filter
SpecSearch == InitSearch /\ [][NextSearch]_vars

\* ----------------------------------------------------------------- claims

\* the account whose mailbox the cycle fetches
Account == IF connector = "gmail" THEN UserEmail ELSE SessionAccountId

\* the SyncState s holds an entry for the account under the provider family
HasEntry(s, family, acct) ==
    /\ family \in DOMAIN s
    /\ acct \in DOMAIN s[family]

\* the cursor a SyncState holds for the account of this source, NoToken when it
\* holds no entry for it
CursorOf(s) ==
    IF ~HasEntry(s, connector, Account) THEN NoToken
    ELSE IF connector = "gmail"
         THEN s["gmail"][UserEmail].historyId
         ELSE s["jmap"][SessionAccountId].emailState

\* getUpdatedSyncState shows no advancement: the empty state, or the cursor the
\* cycle was started with
NoAdvancement ==
    \/ GetUpdatedSyncState = EmptyState
    \/ CursorOf(GetUpdatedSyncState) = CursorOf(priorState)

\* the ids of the messageAdded records of the log with index in from..(to - 1)
AddedBetween(from, to) ==
    LET recs == SelectOps(SubSeq(changeLog, 1, to - 1), from, "add")
    IN [i \in 1..Len(recs) |-> changeLog[recs[i]].id]

SkippedIds == {p[1] : p \in skipped}

\* the running cycle is an incremental cycle started from the cursor that a
\* drained full import returned
AfterFullImport ==
    /\ prev.outcome = "done"
    /\ prev.mode = "full"
    /\ mode = "incremental"
    /\ pc = "done"

\* the generator is inside the enumeration of the whole mailbox
Enumerating == pc \in {"g_list", "g_fetch", "g_profile", "j_query", "j_fetch"}

\* the generator is inside the fetch of the delta since a token
InDelta == pc \in {"g_history", "g_hfetch", "j_changes", "j_get", "j_cfetch"}

\* C1: when the consumer stops pulling after an item and before the generator
\* is exhausted, getUpdatedSyncState returns no cursor advancement relative to
\* the prior state (the empty state or the prior cursor of the account)
C1_AbortLeavesCursor == pc = "aborted" => NoAdvancement

\* C2: after a drained cycle that returns a cursor, every message the provider
\* listed in the cycle was yielded, unless the provider answered 404 for that
\* message or its raw content could not be parsed
C2_NoSilentLoss ==
    (pc = "done" /\ CursorOf(GetUpdatedSyncState) # NoToken)
        => \A p \in skipped : p[2] \in {"gone", "parse"}

\* C3: when fetchEmails raises part-way through a cycle, getUpdatedSyncState
\* returns no cursor advancement relative to the prior state
C3_RaiseLeavesCursor == pc = "raised" => NoAdvancement

\* C4: Gmail: a message that arrived while the full import was scanning, and
\* that is still in the mailbox and was never skipped, is yielded exactly once
\* by the full import and the incremental cycle that follows it
C4_GmailLateArrivalOnce ==
    (connector = "gmail" /\ AfterFullImport /\ prev.skipped = {} /\ skipped = {})
        => \A m \in prev.churn \cap live :
               Count(prev.yielded, m) + Count(yielded, m) = 1

\* C5: JMAP: after a full import during which the mailbox changed and the
\* incremental cycle that follows it, every message of the mailbox has been
\* yielded, and a message that arrived during the scan exactly once
C5_JmapLateArrivalOnce ==
    (connector = "jmap" /\ AfterFullImport /\ prev.skipped = {} /\ skipped = {}
        /\ churn = {})
        => /\ \A m \in live : m \in Range(prev.yielded) \cup Range(yielded)
           /\ \A m \in prev.churn \cap live :
                  Count(prev.yielded, m) + Count(yielded, m) = 1

\* C6: after a drained full import getUpdatedSyncState returns a state with a
\* cursor for the account, whatever the mailbox holds
C6_FullImportReturnsCursor ==
    (pc = "done" /\ mode = "full") => CursorOf(GetUpdatedSyncState) # NoToken

\* C7: JMAP: when Email/changes answers cannotCalculateChanges, fetchEmails
\* goes on as a full import instead of raising (only a failed Email/query can
\* still end it), a drained cycle returns a new cursor the provider accepts,
\* and, the mailbox standing still and no message being skipped, it yields the
\* whole mailbox newest first as a full import does
C7_JmapFallbackTransparent ==
    (connector = "jmap" /\ rejected)
        => /\ mode = "fallback"
           /\ pc = "raised" => raisedBy = "Email/query"
           /\ pc = "done" =>
                /\ CursorOf(GetUpdatedSyncState) >= logFloor
                /\ CursorOf(GetUpdatedSyncState) > sentToken
                /\ (churn = {} /\ skipped = {}) => yielded = Desc(live)

\* C7 witness: a fallback cycle that was drained and yielded two messages
C7_Witness ==
    /\ connector = "jmap"
    /\ rejected
    /\ pc = "done"
    /\ Len(yielded) = 2
    /\ churn = {}

\* C8: Gmail: when history.list rejects the prior historyId, fetchEmails goes
\* on as a full import instead of raising, and a drained cycle returns a
\* cursor
C8_GmailFallback ==
    (connector = "gmail" /\ rejected)
        => /\ mode = "fallback"
           /\ pc # "raised"
           /\ pc = "done" => CursorOf(GetUpdatedSyncState) # NoToken

\* C9: the whole mailbox is enumerated exactly when the prior state has no
\* entry for the account; with an entry the cycle requests the delta since the
\* token of that entry, and enumerates only after the provider rejected it
C9_StrategySelection ==
    LET has == HasEntry(priorState, connector, Account) IN
    /\ mode = "full" <=> (mode # "none" /\ ~has)
    /\ mode = "full" => sentToken = NoToken /\ ~InDelta
    /\ (mode = "full" /\ Active) => Enumerating
    /\ mode = "incremental" => ~Enumerating
    /\ (mode = "incremental" /\ Active) => InDelta
    /\ sentToken # NoToken => sentToken = CursorOf(priorState)
    /\ mode = "fallback" => rejected /\ sentToken # NoToken
    /\ (has /\ Enumerating) => rejected

\* C10: Gmail: a drained incremental cycle in which no message was skipped
\* yields exactly the messages of the messageAdded records between the prior
\* historyId and the historyId the provider reported, in order, and
\* getUpdatedSyncState returns that historyId keyed gmail -> account email
C10_GmailIncremental ==
    (connector = "gmail" /\ mode = "incremental" /\ pc = "done"
        /\ skipped = {} /\ yielded # <<>>)
        => /\ GetUpdatedSyncState = GmailState(UserEmail, newHistoryId)
           /\ CursorOf(priorState) < newHistoryId
           /\ newHistoryId <= ProviderToken
           /\ yielded = AddedBetween(CursorOf(priorState), newHistoryId)

\* C10 witness: a drained incremental Gmail cycle over two history pages
C10_Witness ==
    /\ connector = "gmail"
    /\ mode = "incremental"
    /\ pc = "done"
    /\ skipped = {}
    /\ Len(yielded) = 2

\* the messages of the listing that were not skipped, in the order listed
ListedNotSkipped == SelectSeq(listed, LAMBDA m : m \notin SkippedIds)

\* the drained incremental cycle in which the provider reported no message
DrainedWithoutNews == pc = "done" /\ mode = "incremental" /\ listed = <<>>

\* C11 as stated: after a drained incremental cycle in which the provider
\* reports zero new messages getUpdatedSyncState returns the empty state
C11_EmptyStateWithoutNews == DrainedWithoutNews => GetUpdatedSyncState = EmptyState

\* C11 amended: after a drained incremental cycle in which the provider reported
\* zero new messages getUpdatedSyncState returns a state with an entry for the
\* account, whose cursor is never older than the prior cursor, and is the prior
\* cursor for Gmail and whenever the provider's token did not move
C11_PriorCursorWithoutNews ==
    DrainedWithoutNews
        => /\ HasEntry(GetUpdatedSyncState, connector, Account)
           /\ CursorOf(GetUpdatedSyncState) >= CursorOf(priorState)
           /\ (connector = "gmail" \/ ProviderToken = CursorOf(priorState))
                  => CursorOf(GetUpdatedSyncState) = CursorOf(priorState)

\* C11 witness: a drained Gmail incremental cycle with an empty history
C11_Witness ==
    /\ connector = "gmail"
    /\ DrainedWithoutNews
    /\ CursorOf(priorState) = ProviderToken

\* the message whose fetch raised: the one after those yielded and skipped
RaisedOn == listed[Len(yielded) + Cardinality(skipped) + 1]

\* C18: Gmail: a 404 for one message never raises; when the only messages left
\* out are those answered with 404, the drained cycle yielded every other
\* listed message in order, and its cursor is the one of a cycle without a
\* skip: the historyId of the last history page, or the provider's token read
\* by getProfile
C18_Gmail404SkipsOne ==
    /\ (connector = "gmail" /\ pc = "raised"
            /\ raisedBy \in {"messages.get", "simpleParser"})
          => RaisedOn \in live
    /\ (connector = "gmail" /\ pc = "done" /\ skipped # {}
            /\ \A p \in skipped : p[2] \in {"gone", "label404"})
          => /\ yielded = ListedNotSkipped
             /\ mode = "incremental"
                  => /\ GetUpdatedSyncState = GmailState(UserEmail, newHistoryId)
                     /\ CursorOf(priorState) < newHistoryId
                     /\ newHistoryId <= ProviderToken
             /\ mode = "full" => newHistoryId \in {NoToken, ProviderToken}

\* C18 witness: a drained Gmail cycle that skipped a message answered with 404
\* and yielded another one
C18_Witness ==
    /\ connector = "gmail"
    /\ pc = "done"
    /\ \E p \in skipped : p[2] = "gone"
    /\ \A p \in skipped : p[2] = "gone"
    /\ yielded # <<>>

\* C19: a raw message that fails to parse never makes fetchEmails raise, and a
\* drained cycle in which only such messages were left out yielded every other
\* listed message
C19_ParseFailureSkipped ==
    /\ pc = "raised" => raisedBy # "simpleParser"
    /\ (pc = "done" /\ \A p \in skipped : p[2] = "parse")
          => yielded = ListedNotSkipped

\* C12: withRetry never invokes the action more than maxRetries times in one
\* call, whatever the failures of the action
C12_AttemptsCapped ==
    /\ calls <= maxRetries
    /\ Len(rTrace) = calls
    /\ Wrapped(rSite) => attempt <= maxRetries

\* C12 witness: a call that used all its attempts and threw
C12_Witness ==
    /\ Wrapped(rSite)
    /\ rPhase = "thrown"
    /\ calls = maxRetries

\* the items the loop of the cycle is through with
HandledItems == 1..rHandled

C14_ExhaustedDownloadPropagates ==
    (rSite = "download" /\ rPhase = "handled" /\ FailedTransiently(maxRetries))
        => /\ rCycle = "raised"
           /\ rIdx \notin rSkipped

\* C15: under withRetry an attempt that fails with an error that is not
\* transient is the last one: the error is thrown at once, without a wait after
\* it, so a call whose first attempt fails this way makes one attempt and
\* waits never
C15_NonRetryableThrownAtOnce ==
    \A i \in 1..Len(rTrace) :
        (Wrapped(rSite) /\ ~rTrace[i].ok /\ rTrace[i] \notin TransientErrors)
            => /\ i = Len(rTrace)
               /\ rPhase \in {"thrown", "handled"}
               /\ rErr = rTrace[i]
               /\ Len(waits) = i - 1

\* C15 witness: a call that threw a 404 from its first attempt
C15_Witness ==
    /\ Wrapped(rSite)
    /\ rPhase = "thrown"
    /\ rTrace = <<HttpError(404)>>
    /\ waits = <<>>

\* C16: a call under withRetry throws a rate-limit answer (HTTP 429) only when
\* the retries are exhausted
C16_RateLimitRetried ==
    (Wrapped(rSite) /\ rPhase \in {"thrown", "handled"} /\ rErr = HttpError(429))
        => calls = maxRetries

\* C17: Gmail: a transient failure of a provider call raises the cycle only
\* after the call was attempted again
C17_GmailTransientRetried ==
    (rConn = "gmail" /\ rPhase = "handled" /\ rCycle = "raised"
        /\ rErr \in TransientErrors)
        => calls > 1

\* C20: a pollDeviceAuth request that the token endpoint answered with
\* authorization_pending (slow_down) answers status pending (slow_down) and
\* has written no credentials and triggered no import; the sources are as they
\* were and no import is triggered as long as no request went past the tokens
C20_PendingPollTouchesNothing ==
    /\ \A r \in DOMAIN oReq :
        /\ (oReq[r].pc = "responded" /\ oReq[r].data.error = "authorization_pending")
              => oReq[r].http = 200 /\ oReq[r].status = "pending"
        /\ (oReq[r].pc = "responded" /\ oReq[r].data.error = "slow_down")
              => oReq[r].http = 200 /\ oReq[r].status = "slow_down"
        /\ oReq[r].status \in {"pending", "slow_down"}
              => /\ oReq[r].data.error = IF oReq[r].status = "pending"
                                         THEN "authorization_pending"
                                         ELSE "slow_down"
                 /\ ~oReq[r].wrote
                 /\ ~oReq[r].triggered
    /\ (\A r \in DOMAIN oReq : ~oReq[r].wrote)
          => oSources = InitialSources /\ oImports = <<>>

\* C20 witness: one poll answered pending and a later one slow_down, with the
\* sources as they were
C20_Witness ==
    /\ \E r1, r2 \in DOMAIN oReq :
        /\ oReq[r1].pc = "responded" /\ oReq[r1].status = "pending"
        /\ oReq[r2].pc = "responded" /\ oReq[r2].status = "slow_down"
    /\ oSources = InitialSources
    /\ oImports = <<>>

\* the pollDeviceAuth requests that wrote credentials for source id
WroteFor(id) == {r \in DOMAIN oReq : oReq[r].wrote /\ oReq[r].sourceId = id}

\* the calls of triggerInitialImport for source id
ImportsOf(id) == {i \in DOMAIN oImports : oImports[i] = id}

\* C21: over all pollDeviceAuth requests for one source, in sequence or
\* overlapping, the source is moved to auth_success by at most one request and
\* its initial import is triggered at most once
C21_AuthenticatedOnce ==
    \A id \in SourceIds :
        /\ Cardinality(WroteFor(id)) <= 1
        /\ Cardinality(ImportsOf(id)) <= 1

\* the tokens of a token response that carries no refresh token
TokensWithoutRefresh == TokenAnswer("", "")

\* C22: in the callback and in the device poll, a token response without a
\* refresh token ends the request as a failure with the message that tells the
\* user what to do; the request writes no credentials and triggers no import,
\* and as long as no request wrote, the sources are as they were and nothing
\* is imported
C22_NoRefreshTokenIsTerminal ==
    /\ \A r \in DOMAIN oReq :
        oReq[r].data = TokensWithoutRefresh
            => /\ oReq[r].pc = "responded"
               /\ oReq[r].status = "error"
               /\ oReq[r].message = NoRefreshTokenMessage
               /\ ~oReq[r].wrote
               /\ ~oReq[r].triggered
    /\ \A r \in DOMAIN cReq :
        cReq[r].tokens = TokensWithoutRefresh
            => /\ cReq[r].pc = "responded"
               /\ cReq[r].redirect = "error"
               /\ cReq[r].message = NoRefreshTokenRevokeMessage
               /\ ~cReq[r].wrote
               /\ ~cReq[r].triggered
    /\ ((\A r \in DOMAIN oReq : ~oReq[r].wrote) /\ (\A r \in DOMAIN cReq : ~cReq[r].wrote))
          => oSources = InitialSources /\ oImports = <<>>

\* C22 witness: a device poll whose granted device code was answered with
\* tokens without a refresh token has answered
C22_Witness ==
    \E r \in DOMAIN oReq :
        /\ oReq[r].data = TokensWithoutRefresh
        /\ oReq[r].pc = "responded"
        /\ oReq[r].sourceId = "s1"
        /\ oSources = InitialSources

\* the credentials of source id are encrypted Gmail credentials with a refresh
\* token and an account email, and its status is auth_success
Authenticated(id) ==
    /\ id \in DOMAIN oSources
    /\ oSources[id].status = "auth_success"
    /\ Len(oSources[id].credentials) = 2
    /\ oSources[id].credentials[1] = "encrypted"
    /\ oSources[id].credentials[2].type = "gmail"
    /\ oSources[id].credentials[2].refreshToken # ""
    /\ oSources[id].credentials[2].userEmail # ""

\* C23: in both flows a request triggers the initial import only after it
\* wrote the encrypted credentials and the status auth_success for its
\* source, and every triggered import is the import of such a request
C23_ImportAfterCredentials ==
    /\ \A r \in DOMAIN oReq :
        (oReq[r].triggered \/ oReq[r].status = "success")
            => oReq[r].wrote /\ Authenticated(oReq[r].sourceId)
    /\ \A r \in DOMAIN cReq :
        (cReq[r].triggered \/ cReq[r].redirect = "success")
            => cReq[r].wrote /\ Authenticated(cReq[r].sourceId)
    /\ \A i \in DOMAIN oImports :
        /\ Authenticated(oImports[i])
        /\ \/ \E r \in DOMAIN oReq :
                 oReq[r].triggered /\ oReq[r].wrote /\ oReq[r].sourceId = oImports[i]
           \/ \E r \in DOMAIN cReq :
                 cReq[r].triggered /\ cReq[r].wrote /\ cReq[r].sourceId = oImports[i]

\* C30: authorize answers with an authorization URL, whose state is the
\* source id, only for a source that exists, is a Gmail source and is in the
\* status pending_auth; every other request is answered with an error and no
\* URL
C30_UrlOnlyWhilePendingAuth ==
    /\ cAuth.authUrl # NoUrl
          => /\ cAuth.http = 200
             /\ cAuth.authUrl = AuthUrl(cAuth.sourceId)
             /\ cAuth.sourceId \in DOMAIN oSources
             /\ oSources[cAuth.sourceId].provider = "gmail"
             /\ cAuth.found = "pending_auth"
    /\ (cAuth.http # 0 /\ cAuth.authUrl = NoUrl) => cAuth.http \in {400, 404, 500}

\* C24: after a poll of the dialog was answered slow_down, the dialog goes on
\* polling, and every poll started after that answer was handled runs on a
\* timer with a longer period than the one the slowed poll ran on
C24_SlowDownLengthensInterval ==
    /\ \A p \in DOMAIN polls : polls[p].slowedAt # 0 => polls[p].ms > polls[p].slowedAt
    /\ (slowedAt # 0 /\ gmailAuthStatus = "pending" /\ isGmailAuthDialogOpen)
          => pollInterval # 0

\* C25: a message with a native thread id is emitted with that id as threadId,
\* whatever its threading headers say; the id derived from the headers is
\* used only for a message without a native thread id
C25_NativeThreadIdWins ==
    nPc = "done"
        => nObject.threadId = IF nEmail.threadId # "" THEN nEmail.threadId
                              ELSE GetThreadId(nEmail.headers)

\* the chain of parents of mailbox id, followed for n steps, ends
EndsWithin(id, n) ==
    LET walk[k \in 0..n] ==
            IF k = 0 THEN id
            ELSE LET at == walk[k - 1] IN
                 IF at \in DOMAIN mailboxCache /\ mailboxCache[at].parentId # ""
                 THEN mailboxCache[at].parentId
                 ELSE ""
    IN walk[n] = "" \/ walk[n] \notin DOMAIN mailboxCache

\* the parents of a cached mailbox do not run in a circle
Acyclic(id) == EndsWithin(id, Cardinality(DOMAIN mailboxCache))

\* the names from the topmost ancestor of id that can be resolved down to id
RECURSIVE NamesDownTo(_)
NamesDownTo(id) ==
    LET parentId == mailboxCache[id].parentId IN
    IF parentId = "" \/ parentId \notin DOMAIN mailboxCache
    THEN <<mailboxCache[id].name>>
    ELSE Append(NamesDownTo(parentId), mailboxCache[id].name)

\* C26: getMailboxPath returns '' for an id that is not cached; for a cached
\* mailbox whose parents do not run in a circle it returns the names from the
\* topmost resolvable ancestor down to the mailbox, joined with '/', which is
\* the mailbox's own name alone when its parent id is not cached
C26_MailboxPath ==
    \A i \in DOMAIN resolved :
        LET id == resolved[i].id IN
        /\ id \notin DOMAIN mailboxCache => resolved[i].path = <<>>
        /\ (id \in DOMAIN mailboxCache /\ Acyclic(id))
              => resolved[i].path = NamesDownTo(id)
        /\ (id \in DOMAIN mailboxCache
              /\ mailboxCache[id].parentId \notin DOMAIN mailboxCache)
              => resolved[i].path = <<mailboxCache[id].name>>

\* C26 witness: a message in a mailbox two levels down and in an unknown
\* mailbox: the first path has three names, the second is ''
C26_Witness ==
    /\ nPc = "done"
    /\ Len(resolved) = 2
    /\ Len(resolved[1].path) = 3
    /\ resolved[2].id = UnknownMailboxId
    /\ resolved[2].path = <<>>
    /\ nObject.tags = <<resolved[1].path>>

\* fetchEmails threw before it looked at the prior state: getAccountId or
\* fetchMailboxes failed
RaisedBeforeSelection ==
    pc = "raised" /\ raisedBy \in {"session", "getAccountId", "Mailbox/get"}

\* C27: the cursor returned by a drained cycle and passed back verbatim to a
\* new connector of the same account holds an entry for the account, makes
\* fetchEmails take the incremental path, the only path it takes unless
\* getAccountId or fetchMailboxes throws before the choice, and is the token
\* of the first request for changes
C27_CursorRoundTrip ==
    (cycle > 1 /\ prev.outcome = "done" /\ priorState # EmptyState)
        => /\ HasEntry(priorState, connector, Account)
           /\ CursorOf(priorState) # NoToken
           /\ mode # "none" => mode \in {"incremental", "fallback"}
           /\ mode = "none" => pc \in {"start", "j_mailboxes"} \/ RaisedBeforeSelection
           /\ sentToken # NoToken => sentToken = CursorOf(priorState)
           /\ (pc = "done" \/ listed # <<>>) => sentToken = CursorOf(priorState)

\* C27 witness: a second cycle, started with the cursor of a drained first
\* cycle, has sent that cursor and fetched a message that arrived in between
C27_Witness ==
    /\ cycle > 1
    /\ prev.outcome = "done"
    /\ prev.mode = "full"
    /\ mode = "incremental"
    /\ sentToken = CursorOf(priorState)
    /\ sentToken # NoToken
    /\ yielded # <<>>

\* C29: JMAP: an incremental cycle goes over to the full import only when the
\* provider rejected the state of Email/changes with cannotCalculateChanges;
\* a cycle raised by Email/changes has listed and yielded nothing and is
\* still on the incremental path
C29_FallbackOnlyOnCannotCalculate ==
    /\ mode = "fallback" => connector = "jmap" /\ rejected
    /\ raisedBy = "Email/changes"
          => /\ pc = "raised"
             /\ mode = "incremental"
             /\ listed = <<>>
             /\ yielded = <<>>

\* C28: withRetry waits 2^a * 1000 ms plus a jitter of less than a second
\* after its failed attempt a, every wait is longer than the one before, and
\* a call waits at most maxRetries - 1 times
C28_BackoffGrows ==
    /\ Len(waits) <= maxRetries - 1
    /\ (Wrapped(rSite) /\ rPhase \in {"attempt", "backoff"}) => Len(waits) = attempt - 1
    /\ \A a \in DOMAIN waits :
        /\ a < maxRetries
        /\ waits[a] >= (2 ^ a) * 1000
        /\ waits[a] < (2 ^ a) * 1000 + 1000
        /\ a > 1 => waits[a] > waits[a - 1]

\* C28 witness: a call that waited before each of its retries, the first wait
\* with the longest jitter and the second with the shortest
C28_Witness ==
    /\ Wrapped(rSite)
    /\ Len(waits) = maxRetries - 1
    /\ waits[1] = 2999
    /\ waits[2] = 4000
    /\ rPhase = "thrown"

\* C36: during an incremental Gmail cycle every history.list request carries
\* the prior cursor handed to fetchEmails as its startHistoryId (the request
\* about to be sent at g_history carries newHistoryId)
C36_SameStartHistoryId ==
    (connector = "gmail" /\ pc = "g_history")
        => newHistoryId = GmailLookup(priorState, UserEmail)

\* C37: a discovered Gmail message is left out without an error only because
\* the fetch of the message itself was answered 404
C37_SkippedOnlyWhenGone ==
    connector = "gmail" => \A s \in skipped : s[2] = "gone"

\* C38: within one fetch cycle no message id is yielded twice
C38_YieldedOnce ==
    \A a, b \in DOMAIN yielded : a # b => yielded[a] # yielded[b]

\* C40: whenever a batch of fetchAllEmails does not end the loop, the position
\* of the next Email/query is strictly greater than the one before
C40_PositionAdvances ==
    [][(pc = "j_fetch" /\ pc' = "j_query") => loc'.position > loc.position]_vars

\* the ingestion source a request names exists and is a Gmail source
IsGmailSource(id) == id \in DOMAIN oSources /\ oSources[id].provider = "gmail"

\* C33: a pollDeviceAuth request answered with status error has not written
\* the row of its ingestion source
C33_ErrorLeavesSourceUntouched ==
    \A r \in DOMAIN oReq :
        (oReq[r].pc = "responded" /\ oReq[r].status = "error")
            => ~(oReq[r].wrote /\ oReq[r].sourceId \in DOMAIN oSources)

\* C34: callback and pollDeviceAuth write credentials and trigger an import
\* only for an ingestion source that exists and has provider gmail
C34_TokenEndpointsCheckSource ==
    /\ \A r \in DOMAIN oReq :
        ((oReq[r].wrote /\ oReq[r].sourceId \in DOMAIN oSources) \/ oReq[r].triggered)
            => IsGmailSource(oReq[r].sourceId)
    /\ \A r \in DOMAIN cReq :
        ((cReq[r].wrote /\ cReq[r].sourceId \in DOMAIN oSources) \/ cReq[r].triggered)
            => IsGmailSource(cReq[r].sourceId)
    /\ \A i \in DOMAIN oImports : IsGmailSource(oImports[i])

\* the dialog was opened for one device authorization only
SingleSession == oGrant[DeviceCodes[2]] = "none"

\* C35: within one dialog session a gmailAuthStatus of 'success' is never
\* changed to 'error', and no poll is started once a success or error answer
\* has been handled
C35_SuccessIsFinal ==
    [][SingleSession' =>
          /\ gmailAuthStatus = "success" => gmailAuthStatus' # "error"
          /\ gmailAuthStatus \in {"success", "error"} => Len(polls') = Len(polls)]_vars

\* C39: getMailboxPath terminates for every mailbox cache: its walk up the
\* parents visits no mailbox twice, so it never holds more names than the
\* cache has mailboxes
C39_MailboxPathTerminates ==
    nPc = "walk" => Len(parts) <= Cardinality(DOMAIN mailboxCache)

\* every mailbox of message m has role trash or junk
OnlyInTrashOrJunk(m) == aEmails[m] \subseteq GetExcludedMailboxIds

\* C31: with allInclusiveArchive disabled no message whose mailboxes all have
\* role trash or junk is yielded, by a full import or an incremental cycle
C31_TrashAndJunkExcluded ==
    ~allInclusiveArchive
        => \A i \in DOMAIN aYielded : ~OnlyInTrashOrJunk(aYielded[i])

\* the access-control filter alone lets the document through
AccessAllows(doc) == sSearchFilter = <<>> \/ Matches(sSearchFilter, doc)

\* every filter of the request, taken alone, lets the document through
RequestAllows(doc) ==
    \A i \in DOMAIN sFilters :
        Parses(FilterString(sFilters[i])) /\ Matches(FilterString(sFilters[i]), doc)

\* C32: the hits of searchEmails satisfy the request's filters and the
\* access-control filter: no hit is a document the access-control filter
\* alone excludes
C32_SearchHonoursAccessFilter ==
    sPc = "done" => \A d \in sHits : AccessAllows(d) /\ RequestAllows(d)

====
